---- MODULE Spec2Model ----
(***************************************************************************)
(* Signal-driven trade lifecycle engine of node-binance-trader             *)
(* (src/unnamed/part_005, the trader module).                              *)
(*                                                                         *)
(* Amounts are integers.  Base quantities are counted in lot steps of the  *)
(* market (amountToPrecision truncates to a whole number of steps), quote  *)
(* amounts in the unit in which a price is a whole number.  A quotient     *)
(* that the code passes on as a BigNumber is carried as the exact pair     *)
(* (numerator, denominator) until the code itself rounds it.               *)
(***************************************************************************)
EXTENDS Integers, Sequences, FiniteSets, TLC

\* ------------------------------------------------------------------ bounds
MaxSignals == 2
MaxOps == 1
MaxPayloads == 1
MAX_LOG_LENGTH == 4

\* ------------------------------------------------------- domain constants
Strats == {"s1", "s2"}
TheSymbol == "ETHBTC"
LONG == "long"
SHORT == "short"
NoPosition == "none"
ENTER == "enter"
EXIT == "exit"
SPOT == "spot"
MARGIN == "margin"
WalletType == <<MARGIN, SPOT>>
BUY == "buy"
SELL == "sell"
BORROW == "borrow"
REPAY == "repay"
SIGNAL == "signal"
MANUAL == "manual"
REBALANCE == "rebalance"
REAL == "real"
VIRTUAL == "virtual"
TradingTypes == {REAL, VIRTUAL}
FUNDS_NONE == "none"
BORROW_MIN == "borrow min"
BORROW_ALL == "borrow all"
SELL_ALL == "sell all"
SELL_LARGEST == "sell largest"

\* The one market of the model: ETHBTC, tradable on both wallets.
TheMarket ==
    [symbol |-> TheSymbol, base |-> "ETH", quote |-> "BTC", spot |-> TRUE,
     margin |-> TRUE, amountMin |-> 1, amountMax |-> 0, marketMax |-> 0,
     costMin |-> 5, costMax |-> 0]

MIN_COST_BUFFER_PCT == 20
TradeAmounts == {16}
SignalPrices == {2}
FillPrices == {2, 4}
FreeVals == {0, 16}

NoTrade == [id |-> 0]
NoSignal == [strategyId |-> "none"]
NoTask == [kind |-> "none"]
NoStrategy == [id |-> "none"]
NoCall == [step |-> "none"]
NoLegal == [stage |-> "none"]
NoRebalance == [trade |-> 0]
NoneKnown == [id \in Strats |-> NoStrategy]
NoBalances == [w \in {MARGIN, SPOT} |-> [a \in {"ETH", "BTC"} |-> 0]]
NoNotes == [asked |-> <<>>, sent |-> <<>>]
NoFlushes == [wait |-> 0, write |-> 0]
NoExit == [stage |-> "none", code |-> 0, flush |-> "none"]

\* ---------------------------------------------------- configuration (env)
\* The environment is read once at start; the model draws it in Init.
\* The threshold is a fraction of the loss limit, here in hundredths.
STRATEGY_LIMIT_THRESHOLD_PCT == 50
Env(funds) ==
    [TRADE_LONG_FUNDS |-> funds, PRIMARY_WALLET |-> MARGIN, IS_TRADE_MARGIN_ENABLED |-> TRUE,
     IS_TRADE_SHORT_ENABLED |-> TRUE, IS_FUNDS_NO_LOSS |-> FALSE,
     MAX_LONG_TRADES |-> 0, MAX_SHORT_TRADES |-> 0, STRATEGY_LOSS_LIMIT |-> 0,
     STRATEGY_LIMIT_THRESHOLD |-> STRATEGY_LIMIT_THRESHOLD_PCT, NOTIFIER_LEVEL |-> "info",
     BNB_FREE_THRESHOLD |-> 4]

\* ----------------------------------------------------------- arithmetic
\* A quotient n/d (d > 0) kept exact.
Rat(n, d) == <<n, d>>
RLt(a, b) == a[1] * b[2] < b[1] * a[2]
RGt(a, b) == RLt(b, a)
RLe(a, b) == ~RLt(b, a)
RGe(a, b) == ~RLt(a, b)
RSub(a, b) == <<a[1] * b[2] - b[1] * a[2], a[2] * b[2]>>
RInt(n) == <<n, 1>>
Min(a, b) == IF a < b THEN a ELSE b
Max(a, b) == IF a > b THEN a ELSE b

RECURSIVE SumSeq(_, _)
SumSeq(f, s) == IF s = <<>> THEN 0 ELSE f[Head(s)] + SumSeq(f, Tail(s))

SeqToSet(s) == {s[i] : i \in 1..Len(s)}

RECURSIVE FilterSeq(_, _)
FilterSeq(s, keep) ==
    IF s = <<>> THEN <<>>
    ELSE IF Head(s) \in keep THEN <<Head(s)>> \o FilterSeq(Tail(s), keep)
         ELSE FilterSeq(Tail(s), keep)

\* ccxt amountToPrecision: truncate to a whole number of lot steps.
amountToPrecision(q) == q[1] \div q[2]

\* Minimum trade cost with the slippage buffer applied, as an exact quotient.
getMinCost(market) == Rat(market.costMin * (100 + MIN_COST_BUFFER_PCT), 100)

\* The quantity raised to a minimum, lowered to a maximum (0: no maximum).
atLeast(q, lo) == IF RLt(q, RInt(lo)) THEN RInt(lo) ELSE q
atMost(q, hi) == IF hi # 0 /\ RGt(q, RInt(hi)) THEN RInt(hi) ELSE q

\* The cost limits, both tested on the cost of the quantity as it came in.
qtyWithinCost(q, market, price) ==
    LET cost == Rat(q[1] * price, q[2])
        minCost == getMinCost(market)
    IN  IF market.costMax # 0 /\ RGt(cost, RInt(market.costMax)) THEN Rat(market.costMax, price)
        ELSE IF RLt(cost, minCost) THEN Rat(minCost[1], minCost[2] * price)
        ELSE q

\* Truncation may have dropped the cost below the minimum: add one lot.
qtyAboveMinCost(q, market, price) ==
    IF RLt(RInt(q * price), getMinCost(market)) THEN q + market.amountMin ELSE q

\* Order quantity within the market's limits and precision; qty is an exact
\* quotient, the result a whole number of lot steps.
getLegalQty(qty, market, price) ==
    amountToPrecision(RInt(
        qtyAboveMinCost(
            amountToPrecision(
                qtyWithinCost(
                    atMost(atMost(atLeast(qty, market.amountMin), market.amountMax),
                           market.marketMax),
                    market, price)),
            market, price)))

\* calculatePnL < 0, with the taker fee f (in thousandths of a percent) on
\* both legs: priceSell * (1 - f) < priceBuy * (1 + f).
TAKER_FEE_MILLIPCT == 75
\* calculatePnL leaving the fees out.
PnLIsLossNoFee(priceBuy, priceSell) ==
    priceSell < priceBuy

PnLIsLoss(priceBuy, priceSell) ==
    priceSell * (100000 - TAKER_FEE_MILLIPCT) < priceBuy * (100000 + TAKER_FEE_MILLIPCT)

\* ------------------------------------------------------------------ state
VARIABLES
    env,            \* env(): the configuration
    hub,            \* what the hub lists and the exchange holds when the trader starts
    prices,         \* tradingMetaData.prices of the market while cached, else 0
    isOperational,  \* true once strategies and trades have been processed
    strategies,     \* tradingMetaData.strategies: id -> Strategy or NoStrategy
    heap,           \* the TradeOpen objects, by object reference
    tradesOpen,     \* tradingMetaData.tradesOpen: sequence of references
    tradesClosing,  \* tradingMetaData.tradesClosing: set of references
    queue,          \* the PQueue: pending tasks, first in first out
    running,        \* the task the single worker is executing, or NoTask
    pc,             \* where the running task is suspended
    anythingDone,   \* executeTradingTask's local of the running task
    transactions,   \* tradingMetaData.transactions
    acks,           \* what socket.emitSignalTraded has sent to the hub
    lastCall,       \* the last request made to the exchange
    skipped,        \* the reason the last trade() was rejected with, "" if it was not
    loads,          \* the onUserPayload calls still inside loadPreviousOpenTrades
    nSignals, nOps, nPayloads,
    nLoaded,        \* history: the loadPreviousOpenTrades calls that have returned
    balanceHistory, \* tradingMetaData.balanceHistory of the quote asset, by trading type
    today,          \* the day the clock shows
    nUpdates,
    legal,          \* a quantity on its way through getLegalQty
    rebalance,      \* the last call of rebalanceTrade: its arguments, its wallet, what it stamped
    lastKnown,      \* history: each strategy as the trader last held it
    virtualBalances, \* tradingMetaData.virtualBalances: wallet -> asset -> balance
    notified,       \* the messages notifyAll was asked to send and those it gave the notifiers
    dirty,          \* the parts of tradingMetaData waiting to be written to the database
    flushes,        \* the flushDirty calls under way: how many wait, how many write
    exit,           \* shutDown: how far it is, and the exit code of the process
    BNBState,       \* BNBState: wallet -> "ok", "high", "low" or "empty"
    BNBFree,        \* the free BNB of each wallet as checkBNBThreshold last loaded it
    gateway         \* the exchange gateway: Date.now(), its balance cache, its calls under way

vars == <<env, hub, prices, isOperational, strategies, heap, tradesOpen, tradesClosing, queue,
          running, pc, anythingDone, transactions, acks, lastCall, skipped,
          nSignals, nOps, nPayloads, loads, nLoaded, balanceHistory, today, nUpdates, legal,
          rebalance, lastKnown, virtualBalances, notified, dirty, flushes, exit,
          BNBState, BNBFree, gateway>>

\* What the trade engine's actions leave alone.
\* The state of the services around the engine.
\* What the services beside notifying and saving keep.
apart == <<BNBState, BNBFree, gateway>>

services == <<notified, dirty, flushes, exit, apart>>
history == <<balanceHistory, today, nUpdates, legal, rebalance, lastKnown, services>>
aside == <<history, virtualBalances>>

\* The services before anything has used them.
\* No wallet has been checked for BNB: each is assumed ok to start with.
InitApart ==
    /\ BNBState = [w \in {SPOT, MARGIN} |-> "ok"]
    /\ BNBFree = [w \in {SPOT, MARGIN} |-> 0]
    /\ gateway = [now |-> 0,
                  balances |-> [w \in {SPOT, MARGIN} |-> "none"],
                  balanceTimestamps |-> [w \in {SPOT, MARGIN} |-> 0],
                  lastChangeTimes |-> [w \in {SPOT, MARGIN} |-> 0],
                  fetching |-> {},
                  calls |-> <<>>]

InitServices ==
    /\ notified = NoNotes
    /\ dirty = {}
    /\ flushes = NoFlushes
    /\ exit = NoExit
    /\ InitApart

\* Object references: every TradeOpen object ever created gets the next one.
MaxObj == 4 + 2 * MaxPayloads + 3 * MaxSignals
Refs == 1..MaxObj
NextRef(h) == CHOOSE r \in Refs : h[r] = NoTrade /\ \A q \in 1..(r - 1) : h[q] # NoTrade

markets == [sym \in {TheSymbol} |-> TheMarket]

\* ----------------------------------------------------------- trade lookup
getTradeOpenFiltered(h, match, trades) ==
    FilterSeq(trades,
        {r \in SeqToSet(trades) :
            /\ h[r].strategyId = match.strategyId
            /\ h[r].symbol = match.symbol
            /\ (match.positionType # NoPosition => h[r].positionType = match.positionType)})

\* getTradeOpen overlooking the trades whose entry is still in the queue.
getTradeOpenExecuted(h, open, match) ==
    LET f == getTradeOpenFiltered(h, match,
                                  FilterSeq(open, {r \in SeqToSet(open) : h[r].isExecuted}))
    IN  IF Len(f) = 0 THEN 0
        ELSE IF Len(f) > 1 THEN (IF match.positionType # NoPosition THEN f[1] ELSE 0)
        ELSE f[1]

\* The open trade matching a signal or trade; 0 when none (or ambiguous).
getTradeOpen(h, open, match) ==
    LET f == getTradeOpenFiltered(h, match, open)
    IN  IF Len(f) = 0 THEN 0
        ELSE IF Len(f) > 1 THEN (IF match.positionType # NoPosition THEN f[1] ELSE 0)
        ELSE f[1]

\* removeTradeOpen removing nothing.
removeTradeOpenNothing(open, r) == open

removeTradeOpen(open, r) == FilterSeq(open, SeqToSet(open) \ {r})

\* getStratOpenTrades counting the stopped and the HODL trades too.
getStratOpenTradesAll(h, open, strategyId) ==
    {r \in SeqToSet(open) : h[r].strategyId = strategyId}

getStratOpenTrades(h, open, strategyId) ==
    {r \in SeqToSet(open) : h[r].strategyId = strategyId /\ ~h[r].isStopped /\ ~h[r].isHodl}

getOpenTradeCount(h, open, positionType, tradingType) ==
    Cardinality({r \in SeqToSet(open) :
        /\ h[r].positionType = positionType
        /\ ~h[r].isStopped /\ ~h[r].isHodl
        /\ h[r].tradingType = tradingType})

\* checkSymbol: the reason the symbol cannot be traded, "" when it can.
checkSymbol(symbol, wallet) ==
    IF symbol \notin DOMAIN markets THEN "no market"
    ELSE IF wallet = SPOT /\ ~markets[symbol].spot THEN "wallet unavailable"
    ELSE IF wallet = MARGIN /\ ~markets[symbol].margin THEN "wallet unavailable"
    ELSE IF ~markets[symbol].spot /\ ~markets[symbol].margin THEN "untradable"
    ELSE ""

\* --------------------------------------------------------- hub callbacks
Signal(strategyId, entryType, positionType, price) ==
    [strategyId |-> strategyId, symbol |-> TheSymbol, entryType |-> entryType,
     positionType |-> positionType, price |-> price]

TradeTask(signal, source) == [kind |-> "trade", signal |-> signal, source |-> source]

unchangedEngine ==
    UNCHANGED <<aside, env, hub, prices, isOperational, strategies, heap, tradesOpen, tradesClosing, queue,
                running, pc, anythingDone, transactions, acks, lastCall, skipped>>

\* Buy to enter is a long trade, buy to exit closes a short trade.
onBuySignal(strategyId, entryType, price) ==
    /\ nSignals < MaxSignals
    /\ nSignals' = nSignals + 1
    /\ UNCHANGED <<nOps, nPayloads, loads, nLoaded>>
    /\ IF ~isOperational THEN unchangedEngine
       ELSE /\ queue' = Append(queue,
                    TradeTask(Signal(strategyId, entryType,
                                     IF entryType = ENTER THEN LONG ELSE SHORT, price), SIGNAL))
            /\ UNCHANGED <<aside, env, hub, prices, isOperational, strategies, heap, tradesOpen, tradesClosing,
                           running, pc, anythingDone, transactions, acks, lastCall, skipped>>

\* Sell to enter is a short trade, sell to exit closes a long trade.
onSellSignal(strategyId, entryType, price) ==
    /\ nSignals < MaxSignals
    /\ nSignals' = nSignals + 1
    /\ UNCHANGED <<nOps, nPayloads, loads, nLoaded>>
    /\ IF ~isOperational THEN unchangedEngine
       ELSE /\ queue' = Append(queue,
                    TradeTask(Signal(strategyId, entryType,
                                     IF entryType = ENTER THEN SHORT ELSE LONG, price), SIGNAL))
            /\ UNCHANGED <<aside, env, hub, prices, isOperational, strategies, heap, tradesOpen, tradesClosing,
                           running, pc, anythingDone, transactions, acks, lastCall, skipped>>

\* onCloseTradedSignal without the test of isOperational.
onCloseTradedSignalAlways(strategyId, positionType, price) ==
    /\ nSignals < MaxSignals
    /\ nSignals' = nSignals + 1
    /\ UNCHANGED <<nOps, nPayloads, loads, nLoaded>>
    /\ queue' = Append(queue, TradeTask(Signal(strategyId, EXIT, positionType, price), MANUAL))
    /\ UNCHANGED <<aside, env, hub, prices, isOperational, strategies, heap, tradesOpen, tradesClosing,
                   running, pc, anythingDone, transactions, acks, lastCall, skipped>>

\* The user closes the trade on the hub: always an exit, of manual source.
onCloseTradedSignal(strategyId, positionType, price) ==
    /\ nSignals < MaxSignals
    /\ nSignals' = nSignals + 1
    /\ UNCHANGED <<nOps, nPayloads, loads, nLoaded>>
    /\ IF ~isOperational THEN unchangedEngine
       ELSE /\ queue' = Append(queue,
                    TradeTask(Signal(strategyId, EXIT, positionType, price), MANUAL))
            /\ UNCHANGED <<aside, env, hub, prices, isOperational, strategies, heap, tradesOpen, tradesClosing,
                           running, pc, anythingDone, transactions, acks, lastCall, skipped>>

\* onStopTradedSignal handing the trade to the queue as a close does.
onStopTradedSignalClosing(strategyId, positionType) ==
    /\ nSignals < MaxSignals
    /\ nSignals' = nSignals + 1
    /\ UNCHANGED <<nOps, nPayloads, loads, nLoaded>>
    /\ LET r == getTradeOpen(heap, tradesOpen, Signal(strategyId, EXIT, positionType, 0))
       IN  IF ~isOperational \/ r = 0 THEN unchangedEngine
           ELSE /\ heap' = [heap EXCEPT ![r].isStopped = TRUE]
                /\ queue' = Append(queue,
                        TradeTask(Signal(strategyId, EXIT, positionType, 0), MANUAL))
                /\ UNCHANGED <<aside, env, hub, prices, isOperational, strategies, tradesOpen, tradesClosing,
                               running, pc, anythingDone, transactions, acks, lastCall, skipped>>

\* The user stops the trade on the hub: no buying or selling.
onStopTradedSignal(strategyId, positionType) ==
    /\ nSignals < MaxSignals
    /\ nSignals' = nSignals + 1
    /\ UNCHANGED <<nOps, nPayloads, loads, nLoaded>>
    /\ LET r == getTradeOpen(heap, tradesOpen, Signal(strategyId, EXIT, positionType, 0))
       IN  IF ~isOperational \/ r = 0 THEN unchangedEngine
           ELSE /\ heap' = [heap EXCEPT ![r].isStopped = TRUE]
                /\ UNCHANGED <<aside, env, hub, prices, isOperational, strategies, tradesOpen, tradesClosing,
                               queue, running, pc, anythingDone, transactions, acks, lastCall, skipped>>

\* ------------------------------------------------------ trading sequence
\* getTradingSequence borrowing the quote asset whatever the position.
getTradingSequenceQuote(t, entryType, source) ==
    LET market == markets[t.symbol]
        action == IF t.positionType = LONG
                  THEN (IF entryType = ENTER THEN BUY ELSE SELL)
                  ELSE (IF entryType = ENTER THEN SELL ELSE BUY)
    IN  [before |-> t.borrow > 0 /\ entryType = ENTER,
         mainAction |-> action,
         after |-> t.borrow > 0 /\ entryType = EXIT,
         borrowAsset |-> market.quote,
         socketChannel |-> IF source # REBALANCE THEN "traded_" \o action \o "_signal" ELSE ""]

\* The before / main / after steps of a trade and the hub channel of its ack.
getTradingSequence(t, entryType, source) ==
    LET market == markets[t.symbol]
        action == IF t.positionType = LONG
                  THEN (IF entryType = ENTER THEN BUY ELSE SELL)
                  ELSE (IF entryType = ENTER THEN SELL ELSE BUY)
        borrowAsset == IF t.positionType = LONG THEN market.quote ELSE market.base
    IN  [before |-> t.borrow > 0 /\ entryType = ENTER,
         mainAction |-> action,
         after |-> t.borrow > 0 /\ entryType = EXIT,
         borrowAsset |-> borrowAsset,
         socketChannel |-> IF source # REBALANCE THEN "traded_" \o action \o "_signal" ELSE ""]

ExecTask(r, seq, entryType, source, signal) ==
    [kind |-> "exec", obj |-> r, seq |-> seq, entryType |-> entryType,
     source |-> source, signal |-> signal]

\* scheduleTrade: what it does to the closing set and the queue.
scheduleClosing(closing, r, entryType) ==
    IF entryType = EXIT THEN closing \cup {r} ELSE closing

\* scheduleTrade putting the task at the front of the queue.
scheduleQueueFirst(q, h, r, entryType, source, signal) ==
    <<ExecTask(r, getTradingSequence(h[r], entryType, source), entryType, source, signal)>> \o q

scheduleQueue(q, h, r, entryType, source, signal) ==
    Append(q, ExecTask(r, getTradingSequence(h[r], entryType, source), entryType, source, signal))

\* emitSignalTraded without the test of the channel.
emitSignalTradedAlways(sent, channel, t) ==
    Append(sent, [channel |-> channel, strategyId |-> t.strategyId,
                  positionType |-> t.positionType, id |-> t.id])

\* emitSignalTraded: rebalancing trades are silent (empty channel).
emitSignalTraded(sent, channel, t) ==
    IF channel # "" THEN Append(sent, [channel |-> channel, strategyId |-> t.strategyId,
                                       positionType |-> t.positionType, id |-> t.id])
    ELSE sent

\* checkFailedCloseTrade faking both responses for a trade it knows as well.
checkFailedCloseTradeBoth(h, open, sent, signal) ==
    LET r == getTradeOpen(h, open, signal)
        fakeTrade == [strategyId |-> signal.strategyId, positionType |-> LONG, id |-> 0]
    IN  IF signal.positionType = NoPosition /\ Len(getTradeOpenFiltered(h, signal, open)) > 1
        THEN [open |-> open, acks |-> sent, ignored |-> FALSE]
        ELSE IF r = 0
        THEN [open |-> open,
              acks |-> emitSignalTraded(emitSignalTraded(sent, "traded_buy_signal", fakeTrade),
                                        "traded_sell_signal", fakeTrade),
              ignored |-> TRUE]
        ELSE IF h[r].isStopped
        THEN [open |-> removeTradeOpen(open, r),
              acks |-> emitSignalTraded(emitSignalTraded(sent, "traded_buy_signal", h[r]),
                                        "traded_sell_signal", h[r]),
              ignored |-> TRUE]
        ELSE [open |-> open, acks |-> sent, ignored |-> FALSE]

\* checkFailedCloseTrade: drop a stopped or unknown trade from the hub.  The
\* result is the open list, the acks, and whether the failure may be ignored.
checkFailedCloseTrade(h, open, sent, signal) ==
    LET r == getTradeOpen(h, open, signal)
        fakeTrade == [strategyId |-> signal.strategyId, positionType |-> LONG, id |-> 0]
    IN  IF signal.positionType = NoPosition /\ Len(getTradeOpenFiltered(h, signal, open)) > 1
        THEN [open |-> open, acks |-> sent, ignored |-> FALSE]
        ELSE IF r = 0
        THEN [open |-> open,
              acks |-> emitSignalTraded(emitSignalTraded(sent, "traded_buy_signal", fakeTrade),
                                        "traded_sell_signal", fakeTrade),
              ignored |-> TRUE]
        ELSE IF h[r].isStopped
        THEN [open |-> removeTradeOpen(open, r),
              acks |-> emitSignalTraded(sent,
                          IF h[r].positionType = SHORT THEN "traded_buy_signal"
                          ELSE "traded_sell_signal", h[r]),
              ignored |-> TRUE]
        ELSE [open |-> open, acks |-> sent, ignored |-> FALSE]

\* scheduleTrade's catch keeping the trade that was never opened.
scheduleTradeFailedKeeping(h, open, sent, task) ==
    LET r == task.obj
        parent == getTradeOpen(h, open, h[r])
    IN  CASE task.source = MANUAL ->
                IF task.signal # NoSignal
                THEN LET c == checkFailedCloseTrade(h, open, sent, task.signal)
                     IN  [heap |-> h, open |-> c.open, acks |-> c.acks]
                ELSE [heap |-> h, open |-> open, acks |-> sent]
          [] task.source = REBALANCE ->
                IF parent # 0 /\ parent # r
                THEN [heap |-> [h EXCEPT ![parent].quantity = @ + h[r].quantity,
                                          ![parent].cost = @ + h[r].cost],
                      open |-> open, acks |-> sent]
                ELSE [heap |-> h, open |-> open, acks |-> sent]
          [] OTHER ->
                IF task.signal # NoSignal /\ task.signal.entryType = ENTER /\ ~h[r].isExecuted
                THEN [heap |-> h, open |-> open, acks |-> sent]
                ELSE [heap |-> h, open |-> open, acks |-> sent]

\* The catch handler scheduleTrade attaches to the queued task.
scheduleTradeFailed(h, open, sent, task) ==
    LET r == task.obj
        parent == getTradeOpen(h, open, h[r])
    IN  CASE task.source = MANUAL ->
                IF task.signal # NoSignal
                THEN LET c == checkFailedCloseTrade(h, open, sent, task.signal)
                     IN  [heap |-> h, open |-> c.open, acks |-> c.acks]
                ELSE [heap |-> h, open |-> open, acks |-> sent]
          [] task.source = REBALANCE ->
                IF parent # 0 /\ parent # r
                THEN [heap |-> [h EXCEPT ![parent].quantity = @ + h[r].quantity,
                                          ![parent].cost = @ + h[r].cost],
                      open |-> open, acks |-> sent]
                ELSE [heap |-> h, open |-> open, acks |-> sent]
          [] OTHER ->
                IF task.signal # NoSignal /\ task.signal.entryType = ENTER /\ ~h[r].isExecuted
                THEN [heap |-> h, open |-> removeTradeOpen(open, r), acks |-> sent]
                ELSE [heap |-> h, open |-> open, acks |-> sent]

\* Record a transaction and truncate the in-memory array.
RECURSIVE truncate(_)
truncate(log) ==
    IF Len(log) > 1 /\ Len(log) > MAX_LOG_LENGTH THEN truncate(Tail(log)) ELSE log

recordTransaction(log, t, source, action, asset, quantity) ==
    truncate(Append(log, [id |-> t.id, source |-> source, action |-> action,
                          asset |-> asset, quantity |-> quantity]))

\* executeTradingTask after the last step succeeded.
\* taskCompleted counting the losses without stopping the strategy.
taskCompletedCounting(h, open, strats, task) ==
    LET r == task.obj
        h1 == [h EXCEPT ![r].isExecuted = TRUE]
        t == h1[r]
        closed == (task.signal # NoSignal /\ task.signal.entryType = EXIT) \/ task.source = MANUAL
        counted == /\ t.priceBuy # 0 /\ t.priceSell # 0
                   /\ (task.signal = NoSignal \/ task.signal.entryType = EXIT)
                   /\ strats[t.strategyId] # NoStrategy
                   /\ task.source = SIGNAL /\ task.signal # NoSignal
        st == strats[t.strategyId]
        run == st.lossTradeRun + 1
    IN  [heap |-> h1,
         open |-> IF closed THEN removeTradeOpen(open, r) ELSE open,
         strategies |->
            IF ~counted THEN strats
            ELSE IF PnLIsLoss(t.priceBuy, t.priceSell)
            THEN [strats EXCEPT ![t.strategyId].lossTradeRun = run,
                                ![t.strategyId].isStopped = @]
            ELSE [strats EXCEPT ![t.strategyId].lossTradeRun = 0]]

taskCompleted(h, open, strats, task) ==
    LET r == task.obj
        h1 == [h EXCEPT ![r].isExecuted = TRUE]
        t == h1[r]
        closed == (task.signal # NoSignal /\ task.signal.entryType = EXIT) \/ task.source = MANUAL
        counted == /\ t.priceBuy # 0 /\ t.priceSell # 0
                   /\ (task.signal = NoSignal \/ task.signal.entryType = EXIT)
                   /\ strats[t.strategyId] # NoStrategy
                   /\ task.source = SIGNAL /\ task.signal # NoSignal
        st == strats[t.strategyId]
        run == st.lossTradeRun + 1
    IN  [heap |-> h1,
         open |-> IF closed THEN removeTradeOpen(open, r) ELSE open,
         strategies |->
            IF ~counted THEN strats
            ELSE IF PnLIsLoss(t.priceBuy, t.priceSell)
            THEN [strats EXCEPT ![t.strategyId].lossTradeRun = run,
                                ![t.strategyId].isStopped =
                                    @ \/ (env.STRATEGY_LOSS_LIMIT # 0 /\ run >= env.STRATEGY_LOSS_LIMIT)]
            ELSE [strats EXCEPT ![t.strategyId].lossTradeRun = 0]]

\* ------------------------------------------------------ queue worker
Call(task, step, action, quantity, ok) ==
    [obj |-> task.obj, entryType |-> task.entryType, source |-> task.source,
     step |-> step, action |-> action, quantity |-> quantity, ok |-> ok]

\* executeTradingTask going straight to the order.
ExecStartAtMain ==
    /\ running = NoTask
    /\ queue # <<>>
    /\ Head(queue).kind = "exec"
    /\ running' = Head(queue)
    /\ queue' = Tail(queue)
    /\ pc' = "main"
    /\ anythingDone' = FALSE
    /\ UNCHANGED <<aside, env, hub, prices, isOperational, strategies, heap, tradesOpen, tradesClosing,
                   transactions, acks, lastCall, skipped, nSignals, nOps, nPayloads, loads, nLoaded>>

\* The queue runs one task at a time, oldest first.
ExecStart ==
    /\ running = NoTask
    /\ queue # <<>>
    /\ Head(queue).kind = "exec"
    /\ running' = Head(queue)
    /\ queue' = Tail(queue)
    /\ pc' = IF Head(queue).seq.before THEN "before" ELSE "main"
    /\ anythingDone' = FALSE
    /\ UNCHANGED <<aside, env, hub, prices, isOperational, strategies, heap, tradesOpen, tradesClosing,
                   transactions, acks, lastCall, skipped, nSignals, nOps, nPayloads, loads, nLoaded>>

\* executeTradingTask's catch leaving the trade as it is.
stepFailedUnstopped(h0, step) ==
    LET r == running.obj
        f == scheduleTradeFailed(h0, tradesOpen, acks, running)
    IN  /\ heap' = f.heap
        /\ tradesOpen' = f.open
        /\ acks' = f.acks
        /\ tradesClosing' = tradesClosing \ {r}
        /\ running' = NoTask
        /\ pc' = "idle"
        /\ anythingDone' = FALSE

\* A step was rejected: executeTradingTask's catch, then scheduleTrade's.
stepFailed(h0, step) ==
    LET r == running.obj
        h1 == IF anythingDone /\ step # "before" THEN [h0 EXCEPT ![r].isStopped = TRUE] ELSE h0
        f == scheduleTradeFailed(h1, tradesOpen, acks, running)
    IN  /\ heap' = f.heap
        /\ tradesOpen' = f.open
        /\ acks' = f.acks
        /\ tradesClosing' = tradesClosing \ {r}
        /\ running' = NoTask
        /\ pc' = "idle"
        /\ anythingDone' = FALSE

\* The last step succeeded, the trade staying in the closing set.
stepsDoneClosing(h0, sent) ==
    LET c == taskCompleted(h0, tradesOpen, strategies, running)
    IN  /\ heap' = c.heap
        /\ tradesOpen' = c.open
        /\ strategies' = c.strategies
        /\ acks' = sent
        /\ tradesClosing' = tradesClosing
        /\ running' = NoTask
        /\ pc' = "idle"
        /\ anythingDone' = FALSE

\* The last step succeeded.
stepsDone(h0, sent) ==
    LET c == taskCompleted(h0, tradesOpen, strategies, running)
    IN  /\ heap' = c.heap
        /\ tradesOpen' = c.open
        /\ strategies' = c.strategies
        /\ acks' = sent
        /\ tradesClosing' = tradesClosing \ {running.obj}
        /\ running' = NoTask
        /\ pc' = "idle"
        /\ anythingDone' = FALSE

\* createVirtualOrder leaving the quote balance as it is.
createVirtualOrderBase(ledger, t, action) ==
    IF action = BUY
    THEN [ledger EXCEPT ![t.wallet][markets[t.symbol].base] = @ + t.quantity]
    ELSE [ledger EXCEPT ![t.wallet][markets[t.symbol].base] = @ - t.quantity]

\* A buy or a sell on the virtual balances, at the price the trade expects.
createVirtualOrder(ledger, t, action) ==
    IF action = BUY
    THEN [ledger EXCEPT ![t.wallet][markets[t.symbol].base] = @ + t.quantity,
                        ![t.wallet][markets[t.symbol].quote] = @ - t.quantity * t.priceBuy]
    ELSE [ledger EXCEPT ![t.wallet][markets[t.symbol].base] = @ - t.quantity,
                        ![t.wallet][markets[t.symbol].quote] = @ + t.quantity * t.priceSell]

virtualBorrow(ledger, asset, quantity) ==
    IF quantity > 0 THEN [ledger EXCEPT ![MARGIN][asset] = @ + quantity] ELSE ledger

virtualRepay(ledger, asset, quantity) ==
    IF quantity > 0 THEN [ledger EXCEPT ![MARGIN][asset] = @ - quantity] ELSE ledger

\* executeTradeAction: the step of a real trade is a request to the exchange,
\* which may fail; the step of a virtual trade is written in the ledger.
executeTradeAction(t, call, ledger) ==
    /\ t.tradingType # REAL => call.ok
    /\ IF t.tradingType = REAL
       THEN lastCall' = call /\ UNCHANGED virtualBalances
       ELSE virtualBalances' = ledger /\ UNCHANGED lastCall

\* before(): the margin loan of an entry.
ExecBefore(ok) ==
    /\ running # NoTask /\ running.kind = "exec" /\ pc = "before"
    /\ LET t == heap[running.obj]
       IN  /\ executeTradeAction(t, Call(running, "before", BORROW, t.borrow, ok),
                                 virtualBorrow(virtualBalances, running.seq.borrowAsset, t.borrow))
           /\ IF ok
              THEN /\ transactions' = recordTransaction(transactions, t, running.source, BORROW,
                                                        running.seq.borrowAsset, t.borrow)
                   /\ anythingDone' = TRUE
                   /\ pc' = "main"
                   /\ UNCHANGED <<heap, tradesOpen, tradesClosing, acks, running>>
              ELSE /\ stepFailed(heap, "before")
                   /\ UNCHANGED transactions
    /\ UNCHANGED skipped
    /\ UNCHANGED <<history, env, hub, prices, isOperational, strategies, queue, nSignals, nOps,
                   nPayloads, loads, nLoaded>>

\* executeTradeAction for a filled market order: price slip and cost.
orderFilled(h, open, task, price) ==
    LET r == task.obj
        action == task.seq.mainAction
        h1 == IF action = BUY THEN [h EXCEPT ![r].priceBuy = price]
              ELSE [h EXCEPT ![r].priceSell = price]
        h2 == IF action = SELL /\ task.source = REBALANCE /\ h[r].priceSell # price
              THEN [x \in Refs |->
                      IF x \in SeqToSet(open) /\ h1[x].id = h1[r].id
                      THEN [h1[x] EXCEPT !.priceSell = price, !.cost = h1[x].quantity * price]
                      ELSE h1[x]]
              ELSE h1
    IN  [h2 EXCEPT ![r].cost = h2[r].quantity * price]

\* mainAction(): the market order.
ExecMain(ok, price) ==
    /\ running # NoTask /\ running.kind = "exec" /\ pc = "main"
    /\ LET r == running.obj
           t == heap[r]
           action == running.seq.mainAction
           h1 == orderFilled(heap, tradesOpen, running, price)
           sent == emitSignalTraded(acks, running.seq.socketChannel, t)
       IN  /\ executeTradeAction(t, Call(running, "main", action, t.quantity, ok),
                                 createVirtualOrder(virtualBalances, t, action))
           /\ IF ok
              THEN /\ transactions' = recordTransaction(transactions, t, running.source, action,
                                                        t.symbol, t.quantity)
                   /\ IF running.seq.after
                      THEN /\ heap' = h1
                           /\ acks' = sent
                           /\ anythingDone' = TRUE
                           /\ pc' = "after"
                           /\ UNCHANGED <<tradesOpen, tradesClosing, running, strategies>>
                      ELSE stepsDone(h1, sent)
              ELSE /\ stepFailed(heap, "main")
                   /\ UNCHANGED <<transactions, strategies>>
    /\ UNCHANGED skipped
    /\ UNCHANGED <<history, env, hub, prices, isOperational, queue, nSignals, nOps, nPayloads,
                   loads, nLoaded>>

\* after(): the loan repayment of an exit.
ExecAfter(ok) ==
    /\ running # NoTask /\ running.kind = "exec" /\ pc = "after"
    /\ LET t == heap[running.obj]
       IN  /\ executeTradeAction(t, Call(running, "after", REPAY, t.borrow, ok),
                                 virtualRepay(virtualBalances, running.seq.borrowAsset, t.borrow))
           /\ IF ok
              THEN /\ transactions' = recordTransaction(transactions, t, running.source, REPAY,
                                                        running.seq.borrowAsset, t.borrow)
                   /\ stepsDone(heap, acks)
              ELSE /\ stepFailed(heap, "after")
                   /\ UNCHANGED <<transactions, strategies>>
    /\ UNCHANGED skipped
    /\ UNCHANGED <<history, env, hub, prices, isOperational, queue, nSignals, nOps, nPayloads,
                   loads, nLoaded>>

\* ------------------------------------------------------ wallets
RECURSIVE SumSet(_, _)
SumSet(f, S) ==
    IF S = {} THEN 0
    ELSE LET x == CHOOSE y \in S : TRUE IN f[x] + SumSet(f, S \ {x})

costOf(h) == [r \in Refs |-> IF h[r] = NoTrade THEN 0 ELSE h[r].cost]

NoPotential == <<0, 0>>

hasCurrentPrices == prices # 0

\* The free balance each wallet would have once the queue has drained, the
\* cost locked in active long trades, and those trades.  fetched is what
\* fetchBalance returned for the quote asset of each wallet.
loadWalletBalances(tradingType, h, open, closing, fetched) ==
    LET types == IF env.IS_TRADE_MARGIN_ENABLED THEN {MARGIN, SPOT} ELSE {SPOT}
        inOpen == {r \in SeqToSet(open) : h[r].tradingType = tradingType}
        committed(w) == {r \in inOpen : /\ h[r].wallet = w
                                        /\ \/ h[r].positionType = SHORT /\ h[r].isExecuted
                                           \/ h[r].positionType = LONG /\ ~h[r].isExecuted}
        active(w) == {r \in inOpen : /\ h[r].wallet = w
                                     /\ h[r].positionType = LONG
                                     /\ r \notin closing}
        releasing(w) == {r \in closing : /\ h[r].wallet = w
                                         /\ h[r].positionType = LONG
                                         /\ h[r].isExecuted}
    IN  [w \in types |->
            LET free == fetched[w] - SumSet(costOf(h), committed(w)) + SumSet(costOf(h), releasing(w))
                locked == SumSet(costOf(h), active(w))
            IN  [type |-> w, free |-> free, locked |-> locked, total |-> free + locked,
                 potential |-> NoPotential, trades |-> FilterSeq(open, active(w))]]

\* The wallets a trade may use, in order of preference, and the primary one.
getPreferredWallets(market, positionType) ==
    LET primary == env.PRIMARY_WALLET
        others == FilterSeq(WalletType, {w \in SeqToSet(WalletType) : w # primary /\ market[w]})
        all == IF positionType = LONG
               THEN (IF market[primary] THEN <<primary>> ELSE <<>>) \o others
               ELSE <<MARGIN>>
    IN  [preferred |-> IF env.IS_TRADE_MARGIN_ENABLED THEN all
                       ELSE FilterSeq(all, SeqToSet(all) \ {MARGIN}),
         primary |-> primary]

potentialOf(w) == IF w.potential = NoPotential THEN RInt(w.free) ELSE w.potential

\* The first preferred wallet that covers the cost, else the one with most.
RECURSIVE bestFrom(_, _, _, _)
bestFrom(cost, rest, wallets, largest) ==
    IF rest = <<>> THEN largest
    ELSE LET w == Head(rest)
         IN  IF RGe(potentialOf(wallets[w]), cost) THEN w
             ELSE bestFrom(cost, Tail(rest), wallets,
                           IF RGt(potentialOf(wallets[w]), potentialOf(wallets[largest]))
                           THEN w ELSE largest)

getBestWallet(cost, preferred, wallets) ==
    wallets[bestFrom(cost, preferred, wallets, Head(preferred))]

\* The first trade of the greatest cost.
RECURSIVE largestOf(_, _, _)
largestOf(h, trades, largest) ==
    IF trades = <<>> THEN largest
    ELSE largestOf(h, Tail(trades),
                   IF largest = 0 \/ h[Head(trades)].cost > h[largest].cost
                   THEN Head(trades) ELSE largest)

\* Sell All: drop the trades below the average until none is, the new trade
\* counting as one more share of the total.
RECURSIVE averageLarge(_, _, _, _)
averageLarge(h, free, total, trades) ==
    LET potential == Rat(total, Len(trades) + 1)
        large == FilterSeq(trades, {r \in SeqToSet(trades) : RGe(RInt(h[r].cost), potential)})
        newTotal == SumSeq(costOf(h), large) + free
    IN  IF Len(large) < Len(trades) THEN averageLarge(h, free, newTotal, large)
        ELSE [potential |-> potential, total |-> newTotal, trades |-> large]

\* rebalancePotential taking the first average, whatever the trades below it.
rebalancePotentialOnce(h, wallet, model) ==
    LET minCost2 == Rat(2 * getMinCost(TheMarket)[1], getMinCost(TheMarket)[2])
        excluded == {r \in SeqToSet(wallet.trades) :
                        \/ h[r].isStopped
                        \/ h[r].isHodl /\ ~env.IS_FUNDS_NO_LOSS
                        \/ h[r].quantity < markets[h[r].symbol].amountMin * 2
                        \/ RLt(RInt(h[r].cost), minCost2)}
        losing == IF env.IS_FUNDS_NO_LOSS
                  THEN {r \in SeqToSet(wallet.trades) \ excluded :
                            PnLIsLoss(h[r].priceBuy, prices)}
                  ELSE {}
        total == wallet.total - SumSet(costOf(h), excluded \cup losing)
        trades == FilterSeq(wallet.trades, SeqToSet(wallet.trades) \ (excluded \cup losing))
        largest == largestOf(h, trades, 0)
    IN  IF largest = 0 \/ wallet.free >= h[largest].cost
        THEN [wallet EXCEPT !.total = total, !.potential = RInt(wallet.free), !.trades = <<>>]
        ELSE IF model = SELL_ALL
        THEN [wallet EXCEPT !.total = total, !.potential = Rat(total, Len(trades) + 1),
                            !.trades = trades]
        ELSE [wallet EXCEPT !.total = total,
                            !.potential = Rat(wallet.free + h[largest].cost, 2),
                            !.trades = <<largest>>]

\* What a wallet could offer the new trade if its trades were rebalanced.
rebalancePotential(h, wallet, model) ==
    LET minCost2 == Rat(2 * getMinCost(TheMarket)[1], getMinCost(TheMarket)[2])
        excluded == {r \in SeqToSet(wallet.trades) :
                        \/ h[r].isStopped
                        \/ h[r].isHodl /\ ~env.IS_FUNDS_NO_LOSS
                        \/ h[r].quantity < markets[h[r].symbol].amountMin * 2
                        \/ RLt(RInt(h[r].cost), minCost2)}
        losing == IF env.IS_FUNDS_NO_LOSS
                  THEN {r \in SeqToSet(wallet.trades) \ excluded :
                            PnLIsLoss(h[r].priceBuy, prices)}
                  ELSE {}
        total == wallet.total - SumSet(costOf(h), excluded \cup losing)
        trades == FilterSeq(wallet.trades, SeqToSet(wallet.trades) \ (excluded \cup losing))
        largest == largestOf(h, trades, 0)
        avg == averageLarge(h, wallet.free, total, trades)
    IN  IF largest = 0 \/ wallet.free >= h[largest].cost
        THEN [wallet EXCEPT !.total = total, !.potential = RInt(wallet.free), !.trades = <<>>]
        ELSE IF model = SELL_ALL
        THEN [wallet EXCEPT !.total = avg.total, !.potential = avg.potential, !.trades = avg.trades]
        ELSE [wallet EXCEPT !.total = total,
                            !.potential = Rat(wallet.free + h[largest].cost, 2),
                            !.trades = <<largest>>]

\* ------------------------------------------------------ rebalancing
\* st carries what rebalanceTrade changes: the trade objects, the queue, the
\* closing set, the free and locked amounts of the wallet in use, and the
\* trades whose timeSell or timeUpdated it has set.

\* splitTrade adding the cost of the part sold to the parent.
splitTradeAdding(st, r, child, diffQTY, diffCost) ==
    LET t == st.heap[r]
        h2 == IF t.isExecuted
              THEN [st.heap EXCEPT ![child] = [t EXCEPT !.quantity = diffQTY, !.cost = diffCost]]
              ELSE st.heap
    IN  [heap |-> [h2 EXCEPT ![r].quantity = t.quantity - diffQTY, ![r].cost = t.cost + diffCost],
         queue |-> IF t.isExecuted
                   THEN scheduleQueue(st.queue, h2, child, EXIT, REBALANCE, NoSignal)
                   ELSE st.queue,
         closing |-> IF t.isExecuted THEN scheduleClosing(st.closing, child, EXIT)
                     ELSE st.closing,
         free |-> st.free + diffCost,
         locked |-> st.locked - diffCost,
         stamped |-> st.stamped \cup {r}]

\* The part sold becomes a trade of its own when the parent is on the
\* exchange; the parent keeps the rest.
splitTrade(st, r, child, diffQTY, diffCost) ==
    LET t == st.heap[r]
        h2 == IF t.isExecuted
              THEN [st.heap EXCEPT ![child] = [t EXCEPT !.quantity = diffQTY, !.cost = diffCost]]
              ELSE st.heap
    IN  [heap |-> [h2 EXCEPT ![r].quantity = t.quantity - diffQTY, ![r].cost = t.cost - diffCost],
         queue |-> IF t.isExecuted
                   THEN scheduleQueue(st.queue, h2, child, EXIT, REBALANCE, NoSignal)
                   ELSE st.queue,
         closing |-> IF t.isExecuted THEN scheduleClosing(st.closing, child, EXIT)
                     ELSE st.closing,
         free |-> st.free + diffCost,
         locked |-> st.locked - diffCost,
         stamped |-> st.stamped \cup {r}]

\* rebalanceBy selling whatever the remainder.
rebalanceByAnyRemainder(st, r, targetDiffCost, diffQTY) ==
    LET t == st.heap[r]
        diffCost == diffQTY * t.priceSell
    IN  IF RGt(RInt(diffCost), Rat(2 * targetDiffCost[1], targetDiffCost[2])) THEN st
        ELSE IF diffQTY >= t.quantity THEN st
        ELSE splitTrade(st, r, NextRef(st.heap), diffQTY, diffCost)

\* The checks on the quantity to sell and on the quantity that remains.
rebalanceBy(st, r, targetDiffCost, diffQTY) ==
    LET t == st.heap[r]
        diffCost == diffQTY * t.priceSell
        remQty == t.quantity - diffQTY
    IN  IF RGt(RInt(diffCost), Rat(2 * targetDiffCost[1], targetDiffCost[2])) THEN st
        ELSE IF diffQTY >= t.quantity THEN st
        ELSE IF getLegalQty(RInt(remQty), markets[t.symbol], t.priceSell) > remQty THEN st
        ELSE splitTrade(st, r, NextRef(st.heap), diffQTY, diffCost)

\* The trade has its selling price: work out the quantity to sell.
rebalancePriced(st, r, targetDiffCost) ==
    rebalanceBy(st, r, targetDiffCost,
                getLegalQty(Rat(targetDiffCost[1], targetDiffCost[2] * st.heap[r].priceSell),
                            markets[st.heap[r].symbol], st.heap[r].priceSell))

rebalanceTrade(st, r, cost) ==
    LET t == st.heap[r]
        priceSell == IF hasCurrentPrices THEN prices
                     ELSE IF t.priceSell # 0 THEN t.priceSell ELSE t.priceBuy
    IN  IF t.borrow > 0 \/ t.priceBuy = 0 THEN st
        ELSE IF RLe(RInt(t.cost), cost) THEN st
        ELSE rebalancePriced([st EXCEPT !.heap[r].priceSell = priceSell], r,
                             RSub(RInt(t.cost), cost))

RECURSIVE rebalanceAll(_, _, _)
rebalanceAll(st, trades, cost) ==
    IF trades = <<>> THEN st
    ELSE rebalanceAll(rebalanceTrade(st, Head(trades), cost), Tail(trades), cost)

\* ------------------------------------------------------ trade size
Rejected(h, q, closing) ==
    [ok |-> FALSE, quantity |-> 0, cost |-> 0, borrow |-> 0, wallet |-> "",
     heap |-> h, queue |-> q, closing |-> closing]

Sized(quantity, cost, borrow, wallet, h, q, closing) ==
    IF cost > 0
    THEN [ok |-> TRUE, quantity |-> quantity, cost |-> cost, borrow |-> borrow,
          wallet |-> wallet, heap |-> h, queue |-> q, closing |-> closing]
    ELSE Rejected(h, q, closing)

SizedAt(quantity, price, borrow, wallet, h, q, closing) ==
    Sized(quantity, quantity * price, borrow, wallet, h, q, closing)

\* sizeFrom without the check of the minimum cost.
sizeFromAnyCost(cost, signal, market, borrow, wallet, h, q, closing) ==
    SizedAt(getLegalQty(Rat(cost[1], cost[2] * signal.price), market, signal.price),
            signal.price, borrow, wallet, h, q, closing)

\* The last part of the long branch: minimum cost, then the legal quantity.
sizeFrom(cost, signal, market, borrow, wallet, h, q, closing) ==
    IF RLt(cost, getMinCost(market)) THEN Rejected(h, q, closing)
    ELSE SizedAt(getLegalQty(Rat(cost[1], cost[2] * signal.price), market, signal.price),
                 signal.price, borrow, wallet, h, q, closing)

\* The trades were rebalanced: the new trade gets what that freed.
sizeRebalanced(cost1, signal, market, use, st) ==
    sizeFrom(IF RLt(RInt(st.free), cost1) THEN RInt(st.free) ELSE cost1,
             signal, market, 0, use.type, st.heap, st.queue, st.closing)

\* The wallet is chosen: rebalance its trades to its potential.
sellFrom(cost0, signal, market, use, h, q, closing) ==
    LET cost1 == IF RLt(use.potential, cost0) THEN use.potential ELSE cost0
    IN  IF use.trades # <<>>
        THEN IF RLt(cost1, getMinCost(market)) THEN Rejected(h, q, closing)
             ELSE sizeRebalanced(cost1, signal, market, use,
                                 rebalanceAll([heap |-> h, queue |-> q, closing |-> closing,
                                               free |-> use.free, locked |-> use.locked,
                                               stamped |-> {}],
                                              use.trades, use.potential))
        ELSE sizeFrom(cost1, signal, market, 0, use.type, h, q, closing)

\* The sell models: free funds by reducing open long trades of the wallet.
sizeBySelling(cost0, signal, market, wallets0, preferred, model, h, q, closing) ==
    sellFrom(cost0, signal, market,
             getBestWallet(cost0, preferred,
                           [w \in DOMAIN wallets0 |-> rebalancePotential(h, wallets0[w], model)]),
             h, q, closing)

\* fundLong buying the whole amount when there is no way to fund it.
fundLongWhole(quantity, cost, use, signal, market, wallets, preferred, h, q, closing) ==
    LET model == env.TRADE_LONG_FUNDS
    IN  IF cost <= use.free
        THEN Sized(quantity, cost, 0, use.type, h, q, closing)
        ELSE IF model = FUNDS_NONE \/ (model \in {BORROW_MIN, BORROW_ALL} /\ ~market.margin)
        THEN sizeFrom(RInt(cost), signal, market, 0, use.type, h, q, closing)
        ELSE IF model \in {BORROW_MIN, BORROW_ALL}
        THEN IF MARGIN \notin DOMAIN wallets THEN Rejected(h, q, closing)
             ELSE sizeFrom(RInt(cost), signal, market,
                           IF wallets[MARGIN].free > 0 THEN cost - wallets[MARGIN].free ELSE cost,
                           MARGIN, h, q, closing)
        ELSE sizeBySelling(RInt(cost), signal, market, wallets, preferred, model, h, q, closing)

\* A long trade that TRADE_LONG_FUNDS has to fund; use is the best wallet.
fundLong(quantity, cost, use, signal, market, wallets, preferred, h, q, closing) ==
    LET model == env.TRADE_LONG_FUNDS
    IN  IF cost <= use.free
        THEN Sized(quantity, cost, 0, use.type, h, q, closing)
        ELSE IF model = FUNDS_NONE \/ (model \in {BORROW_MIN, BORROW_ALL} /\ ~market.margin)
        THEN sizeFrom(RInt(use.free), signal, market, 0, use.type, h, q, closing)
        ELSE IF model \in {BORROW_MIN, BORROW_ALL}
        THEN IF MARGIN \notin DOMAIN wallets THEN Rejected(h, q, closing)
             ELSE sizeFrom(RInt(cost), signal, market,
                           IF wallets[MARGIN].free > 0 THEN cost - wallets[MARGIN].free ELSE cost,
                           MARGIN, h, q, closing)
        ELSE sizeBySelling(RInt(cost), signal, market, wallets, preferred, model, h, q, closing)

\* sizeOf borrowing the cost of a short trade, as for a long one.
sizeOfBorrowingCost(quantity, signal, market, wallets, preferred, h, q, closing) ==
    LET cost == quantity * signal.price
    IN  IF signal.positionType = SHORT
        THEN Sized(quantity, cost, cost, preferred[1], h, q, closing)
        ELSE IF env.TRADE_LONG_FUNDS = BORROW_ALL /\ market.margin
        THEN Sized(quantity, cost, cost, preferred[1], h, q, closing)
        ELSE fundLong(quantity, cost, getBestWallet(RInt(cost), preferred, wallets),
                      signal, market, wallets, preferred, h, q, closing)

\* The trade of the strategy's amount, at its legal quantity.
sizeOf(quantity, signal, market, wallets, preferred, h, q, closing) ==
    LET cost == quantity * signal.price
    IN  IF signal.positionType = SHORT
        THEN Sized(quantity, cost, quantity, preferred[1], h, q, closing)
        ELSE IF env.TRADE_LONG_FUNDS = BORROW_ALL /\ market.margin
        THEN Sized(quantity, cost, cost, preferred[1], h, q, closing)
        ELSE fundLong(quantity, cost, getBestWallet(RInt(cost), preferred, wallets),
                      signal, market, wallets, preferred, h, q, closing)

calculateTradeSize(signal, strategy, market, wallets, preferred, h, q, closing) ==
    sizeOf(getLegalQty(Rat(strategy.tradeAmount, signal.price), market, signal.price),
           signal, market, wallets, preferred, h, q, closing)

\* ------------------------------------------------------ signal validation
\* checkTradingData: the reason the signal is skipped ("" when accepted) and
\* the signal as the validation left it (an exit that passed the checks on
\* the open trade takes its position type when the hub did not send one).
checkTradingData(signal, source, h, open, closing, strats) ==
    LET strategy == strats[signal.strategyId]
        r == getTradeOpen(h, open, signal)
        filled == IF /\ signal.entryType = EXIT /\ r # 0 /\ signal.positionType = NoPosition
                     /\ r \notin closing /\ ~(source = SIGNAL /\ h[r].isStopped)
                  THEN [signal EXCEPT !.positionType = h[r].positionType] ELSE signal
        loss == IF filled.positionType = LONG THEN PnLIsLoss(h[r].priceBuy, signal.price)
                ELSE PnLIsLoss(signal.price, h[r].priceSell)
        reason ==
            IF source = SIGNAL /\ strategy = NoStrategy THEN "strategy isn't followed"
            ELSE IF source = SIGNAL /\ ~strategy.isActive THEN "strategy isn't active"
            ELSE IF checkSymbol(signal.symbol, IF r = 0 THEN "" ELSE h[r].wallet) # ""
                 THEN checkSymbol(signal.symbol, IF r = 0 THEN "" ELSE h[r].wallet)
            ELSE IF signal.entryType = ENTER /\ (strategy = NoStrategy \/ strategy.isStopped)
                 THEN "strategy has been stopped"
            ELSE IF signal.entryType = ENTER /\ r # 0 THEN "existing open trade"
            ELSE IF /\ signal.entryType = ENTER /\ env.STRATEGY_LOSS_LIMIT # 0
                    /\ strategy.lossTradeRun * 100
                           >= env.STRATEGY_LOSS_LIMIT * env.STRATEGY_LIMIT_THRESHOLD
                    /\ Cardinality(getStratOpenTrades(h, open, strategy.id))
                           >= env.STRATEGY_LOSS_LIMIT - strategy.lossTradeRun
                 THEN "threshold for limiting open trades"
            ELSE IF signal.entryType = EXIT /\ r = 0 THEN "no open trade"
            ELSE IF signal.entryType = EXIT /\ r \in closing THEN "already closing"
            ELSE IF signal.entryType = EXIT /\ source = SIGNAL /\ h[r].isStopped THEN "trade is stopped"
            ELSE IF /\ signal.entryType = EXIT /\ source = SIGNAL
                    /\ (strategy = NoStrategy \/ strategy.isStopped \/ h[r].isHodl)
                    /\ loss
                 THEN "would make another loss"
            ELSE IF filled.positionType = LONG /\ signal.entryType = ENTER
                    /\ env.MAX_LONG_TRADES # 0
                    /\ getOpenTradeCount(h, open, LONG, strategy.tradingType) >= env.MAX_LONG_TRADES
                 THEN "maximum number of trades"
            ELSE IF filled.positionType = SHORT /\ signal.entryType = ENTER
                    /\ ~env.IS_TRADE_SHORT_ENABLED
                 THEN "short trading is disabled"
            ELSE IF filled.positionType = SHORT /\ signal.entryType = ENTER
                    /\ ~env.IS_TRADE_MARGIN_ENABLED
                 THEN "margin trading is disabled"
            ELSE IF filled.positionType = SHORT /\ signal.entryType = ENTER
                    /\ env.MAX_SHORT_TRADES # 0
                    /\ getOpenTradeCount(h, open, SHORT, strategy.tradingType) >= env.MAX_SHORT_TRADES
                 THEN "maximum number of trades"
            ELSE IF filled.positionType = SHORT /\ ~markets[signal.symbol].margin
                 THEN "margin trading is unavailable"
            ELSE IF filled.positionType \notin {LONG, SHORT} THEN "position type"
            ELSE ""
    IN  [reason |-> reason, signal |-> filled]

\* ------------------------------------------------------ trade()
taskDone ==
    /\ queue' = Tail(queue)
    /\ running' = NoTask
    /\ pc' = "idle"
    /\ anythingDone' = FALSE

\* trade() once checkTradingData has answered with c.
tradeChecked(task, c) ==
    LET signal == c.signal
        strategy == strategies[signal.strategyId]
        r == getTradeOpen(heap, tradesOpen, signal)
        h1 == [heap EXCEPT ![r].priceBuy = IF signal.positionType = SHORT THEN signal.price ELSE @,
                           ![r].priceSell = IF signal.positionType = SHORT THEN @ ELSE signal.price,
                           ![r].cost = heap[r].quantity * signal.price]
    IN  IF c.reason # ""
        THEN \* rejected before the trade started
             /\ skipped' = c.reason
             /\ taskDone
             /\ IF task.source = MANUAL
                THEN /\ tradesOpen' = checkFailedCloseTrade(heap, tradesOpen, acks, signal).open
                     /\ acks' = checkFailedCloseTrade(heap, tradesOpen, acks, signal).acks
                ELSE UNCHANGED <<tradesOpen, acks>>
             /\ UNCHANGED <<heap, tradesClosing>>
        ELSE IF signal.entryType = EXIT
        THEN /\ skipped' = ""
             /\ heap' = h1
             /\ tradesClosing' = scheduleClosing(tradesClosing, r, EXIT)
             /\ queue' = scheduleQueue(Tail(queue), h1, r, EXIT, task.source, signal)
             /\ UNCHANGED <<running, pc, anythingDone, tradesOpen, acks>>
        ELSE IF strategy.tradeAmount <= 0
                \/ getPreferredWallets(markets[signal.symbol], signal.positionType).preferred = <<>>
        THEN /\ skipped' = "no trade amount or wallet"
             /\ taskDone
             /\ UNCHANGED <<heap, tradesClosing, tradesOpen, acks>>
        ELSE /\ UNCHANGED skipped
             /\ running' = [kind |-> "trade", signal |-> signal, source |-> task.source,
                          strategy |-> strategy]
             /\ queue' = Tail(queue)
             /\ pc' = "sizing"
             /\ UNCHANGED <<anythingDone, heap, tradesClosing, tradesOpen, acks>>

\* The queue starts a trade() task.  Validation, and for an exit the whole
\* of trade(), run without suspending; an entry suspends on fetchBalance.
TradeStart ==
    /\ running = NoTask
    /\ queue # <<>>
    /\ Head(queue).kind = "trade"
    /\ tradeChecked(Head(queue),
                    checkTradingData(Head(queue).signal, Head(queue).source, heap, tradesOpen,
                                     tradesClosing, strategies))
    /\ UNCHANGED <<aside, env, hub, prices, isOperational, strategies, transactions, lastCall,
                   nSignals, nOps, nPayloads, loads, nLoaded>>

createTradeOpen(id, signal, strategy, size) ==
    [id |-> id, strategyId |-> signal.strategyId, symbol |-> signal.symbol,
     positionType |-> signal.positionType, tradingType |-> strategy.tradingType,
     wallet |-> size.wallet, quantity |-> size.quantity, cost |-> size.cost,
     borrow |-> size.borrow,
     priceBuy |-> IF signal.positionType = LONG THEN signal.price ELSE 0,
     priceSell |-> IF signal.positionType = SHORT THEN signal.price ELSE 0,
     isStopped |-> FALSE, isHodl |-> FALSE, isExecuted |-> FALSE]

\* trade() scheduling the new trade ahead of the sales that fund it.
tradeSizedFirst(size) ==
    LET r == NextRef(size.heap)
        h1 == [size.heap EXCEPT ![r] = createTradeOpen(r, running.signal, running.strategy, size)]
    IN  IF ~size.ok
        THEN /\ skipped' = "no funds"
             /\ heap' = size.heap
             /\ queue' = size.queue
             /\ tradesClosing' = size.closing
             /\ UNCHANGED tradesOpen
        ELSE /\ skipped' = ""
             /\ heap' = h1
             /\ queue' = scheduleQueue(queue, h1, r, ENTER, running.source, running.signal)
                            \o SubSeq(size.queue, Len(queue) + 1, Len(size.queue))
             /\ tradesClosing' = size.closing
             /\ tradesOpen' = Append(tradesOpen, r)

\* trade() once calculateTradeSize has answered with size: rebalancing has
\* happened whether or not the trade can be made.
tradeSized(size) ==
    LET r == NextRef(size.heap)
        h1 == [size.heap EXCEPT ![r] = createTradeOpen(r, running.signal, running.strategy, size)]
    IN  IF ~size.ok
        THEN /\ skipped' = "no funds"
             /\ heap' = size.heap
             /\ queue' = size.queue
             /\ tradesClosing' = size.closing
             /\ UNCHANGED tradesOpen
        ELSE /\ skipped' = ""
             /\ heap' = h1
             /\ queue' = scheduleQueue(size.queue, h1, r, ENTER, running.source, running.signal)
             /\ tradesClosing' = size.closing
             /\ tradesOpen' = Append(tradesOpen, r)

\* fetchBalance answered: size the trade, rebalance, schedule, record.  The
\* strategy is the one validation saw; the trades are as they are now.
TradeSize(ok, fetched) ==
    /\ running # NoTask /\ running.kind = "trade" /\ pc = "sizing"
    /\ IF ~ok
       THEN /\ skipped' = "no balances"
            /\ UNCHANGED <<heap, queue, tradesClosing, tradesOpen>>
       ELSE tradeSized(calculateTradeSize(
                running.signal, running.strategy, markets[running.signal.symbol],
                loadWalletBalances(running.strategy.tradingType, heap, tradesOpen, tradesClosing,
                                   fetched),
                getPreferredWallets(markets[running.signal.symbol],
                                    running.signal.positionType).preferred,
                heap, queue, tradesClosing))
    /\ running' = NoTask
    /\ pc' = "idle"
    /\ UNCHANGED <<aside, env, hub, prices, isOperational, strategies, anythingDone, transactions, acks,
                   lastCall, nSignals, nOps, nPayloads, loads, nLoaded>>

\* ------------------------------------------------------ startup reconciliation
\* A trade as the hub lists it: no wallet, cost or loan.
HubTrade(strategyId, positionType, quantity, price, isStopped) ==
    [id |-> 0, strategyId |-> strategyId, symbol |-> TheSymbol,
     positionType |-> positionType, tradingType |-> "", wallet |-> "",
     quantity |-> quantity, cost |-> 0, borrow |-> 0,
     priceBuy |-> IF positionType = LONG THEN price ELSE 0,
     priceSell |-> IF positionType = SHORT THEN price ELSE 0,
     isStopped |-> isStopped, isHodl |-> FALSE, isExecuted |-> TRUE]

sameTrade(a, b) ==
    a.strategyId = b.strategyId /\ a.symbol = b.symbol /\ a.positionType = b.positionType

\* loadPersisted discarding every trade the hub does not list.
loadPersistedListed(h, open, prevTrades) ==
    LET listed(r) == \E i \in 1..Len(prevTrades) : sameTrade(h[r], prevTrades[i])
        stoppedOnHub(r) == \E i \in 1..Len(prevTrades) :
                              /\ getTradeOpen(h, open, prevTrades[i]) = r
                              /\ prevTrades[i].isStopped
        bad == {r \in SeqToSet(open) : ~listed(r)}
    IN  [heap |-> [r \in Refs |->
                    IF r \in SeqToSet(open)
                    THEN [h[r] EXCEPT !.isStopped = @ \/ stoppedOnHub(r),
                                      !.isExecuted = @ \/ listed(r)]
                    ELSE h[r]],
         open |-> FilterSeq(open, SeqToSet(open) \ bad)]

\* Trades restored from the database: the hub can only stop them, confirm
\* them as executed, or show that an unexecuted one never happened.
loadPersisted(h, open, prevTrades) ==
    LET listed(r) == \E i \in 1..Len(prevTrades) : sameTrade(h[r], prevTrades[i])
        stoppedOnHub(r) == \E i \in 1..Len(prevTrades) :
                              /\ getTradeOpen(h, open, prevTrades[i]) = r
                              /\ prevTrades[i].isStopped
        bad == {r \in SeqToSet(open) : ~listed(r) /\ ~h[r].isExecuted}
    IN  [heap |-> [r \in Refs |->
                    IF r \in SeqToSet(open)
                    THEN [h[r] EXCEPT !.isStopped = @ \/ stoppedOnHub(r),
                                      !.isExecuted = @ \/ listed(r)]
                    ELSE h[r]],
         open |-> FilterSeq(open, SeqToSet(open) \ bad)]

\* Short trades take the loans of the base asset first; a trade the loans
\* do not cover repays less than its quantity.
RECURSIVE matchShorts(_, _, _)
matchShorts(trades, i, borrowed) ==
    IF i > Len(trades) THEN trades
    ELSE IF trades[i].positionType # SHORT THEN matchShorts(trades, i + 1, borrowed)
    ELSE LET t == trades[i]
             left == borrowed - t.quantity
         IN  matchShorts([trades EXCEPT ![i] = [t EXCEPT !.wallet = MARGIN,
                                                         !.cost = t.quantity * t.priceSell,
                                                         !.borrow = IF left < 0 THEN t.quantity + left
                                                                    ELSE t.quantity]],
                         i + 1, Max(left, 0))

\* Long trades go to the preferred wallet that best holds their quantity.
RECURSIVE assignWallets(_, _, _, _)
assignWallets(trades, i, ws, preferred) ==
    IF i > Len(trades) THEN [trades |-> trades, wallets |-> ws]
    ELSE IF trades[i].positionType # LONG THEN assignWallets(trades, i + 1, ws, preferred)
    ELSE LET t == trades[i]
             ws1 == [w \in DOMAIN ws |->
                        [ws[w] EXCEPT !.potential =
                            IF ws[w].free - ws[w].total < t.quantity
                            THEN Rat(ws[w].free, Len(ws[w].trades) + 1)
                            ELSE RInt(ws[w].free - ws[w].total)]]
             w == getBestWallet(RInt(t.quantity), preferred, ws1).type
         IN  assignWallets([trades EXCEPT ![i].wallet = w], i + 1,
                           [ws1 EXCEPT ![w].total = @ + t.quantity,
                                       ![w].trades = Append(@, i)],
                           preferred)

\* A wallet that holds less than its trades need shares it out evenly.
RECURSIVE reduceLongs(_, _, _, _, _)
reduceLongs(st, i, w, target, free) ==
    IF i > Len(st.trades) THEN st
    ELSE IF st.trades[i].positionType # LONG \/ st.trades[i].wallet # w
    THEN reduceLongs(st, i + 1, w, target, free)
    ELSE LET t == st.trades[i]
             q1 == getLegalQty(target, markets[t.symbol], t.priceBuy)
             q2 == IF q1 > free THEN getLegalQty(RInt(free), markets[t.symbol], t.priceBuy) ELSE q1
             sized == [st.trades EXCEPT ![i].quantity = q2]
         IN  IF q2 > free
             THEN reduceLongs([trades |-> sized, bad |-> st.bad \cup {i}], i + 1, w, target, free)
             ELSE reduceLongs([trades |-> sized, bad |-> st.bad], i + 1, w, target, free - q2)

RECURSIVE reduceWallets(_, _, _)
reduceWallets(st, ws, todo) ==
    IF todo = {} THEN st
    ELSE LET w == CHOOSE x \in todo : TRUE
         IN  reduceWallets(
                IF ws[w].total > ws[w].free
                THEN reduceLongs(st, 1, w, Rat(ws[w].free, Len(ws[w].trades)), ws[w].free)
                ELSE st,
                ws, todo \ {w})

\* Margin long trades take what is left of the loans of the quote asset.
RECURSIVE mopUpLoans(_, _, _, _)
mopUpLoans(trades, bad, i, borrowed) ==
    IF i > Len(trades) THEN trades
    ELSE LET t == trades[i]
             borrow == Min(borrowed, t.quantity)
         IN  IF t.positionType = LONG /\ t.wallet = MARGIN /\ i \notin bad /\ borrowed # 0
             THEN mopUpLoans([trades EXCEPT ![i].borrow = borrow], bad, i + 1, borrowed - borrow)
             ELSE mopUpLoans(trades, bad, i + 1, borrowed)

RECURSIVE keepGood(_, _, _)
keepGood(trades, bad, i) ==
    IF i > Len(trades) THEN <<>>
    ELSE (IF i \in bad THEN <<>> ELSE <<trades[i]>>) \o keepGood(trades, bad, i + 1)

\* The cost of a long trade is its quantity at its buying price.
costLongs(trades) ==
    [i \in 1..Len(trades) |->
        IF trades[i].positionType = LONG
        THEN [trades[i] EXCEPT !.cost = trades[i].quantity * trades[i].priceBuy]
        ELSE trades[i]]

loanLongs(reduced, borrowed) ==
    keepGood(mopUpLoans(costLongs(reduced.trades), reduced.bad, 1, borrowed), reduced.bad, 1)

reduceAssigned(assigned) ==
    reduceWallets([trades |-> assigned.trades, bad |-> {}], assigned.wallets,
                  DOMAIN assigned.wallets)

\* Trades known only to the hub are matched to the balances and loans of the
\* exchange.  free is the free base asset of each wallet, loans the margin
\* loans of the base and of the quote asset.
matchBalances(valid, free, loans) ==
    loanLongs(
        reduceAssigned(
            assignWallets(matchShorts(valid, 1, loans.base), 1,
                          [w \in SeqToSet(getPreferredWallets(TheMarket, LONG).preferred) |->
                              [type |-> w, free |-> free[w], total |-> 0,
                               potential |-> RInt(free[w]), trades |-> <<>>]],
                          getPreferredWallets(TheMarket, LONG).preferred)),
        loans.quote)

\* ------------------------------------------------------ strategy payload
Strategy(id, isActive, tradeAmount) ==
    [id |-> id, isActive |-> isActive, isStopped |-> FALSE, lossTradeRun |-> 0,
     tradingType |-> REAL, tradeAmount |-> tradeAmount]

\* checkStrategyChanges copying the flags whatever the trade flag.
checkStrategyChangesAll(new, old) ==
    [id \in Strats |->
        IF new[id] # NoStrategy /\ old[id] # NoStrategy
        THEN [new[id] EXCEPT !.isStopped = old[id].isStopped,
                             !.lossTradeRun = old[id].lossTradeRun]
        ELSE new[id]]

\* The stopped flag and the loss run survive a payload unless the hub
\* toggled the strategy's trade flag.
checkStrategyChanges(new, old) ==
    [id \in Strats |->
        IF new[id] # NoStrategy /\ old[id] # NoStrategy /\ new[id].isActive = old[id].isActive
        THEN [new[id] EXCEPT !.isStopped = old[id].isStopped,
                             !.lossTradeRun = old[id].lossTradeRun]
        ELSE new[id]]

RECURSIVE allocate(_, _, _)
allocate(h, trades, open) ==
    IF trades = <<>> THEN [heap |-> h, open |-> open]
    ELSE LET r == NextRef(h)
         IN  allocate([h EXCEPT ![r] = [Head(trades) EXCEPT !.id = r]], Tail(trades),
                      Append(open, r))

RemoveAt(s, i) == SubSeq(s, 1, i - 1) \o SubSeq(s, i + 1, Len(s))

\* onUserPayload once loadPreviousOpenTrades has returned.
loaded(i, h, open) ==
    /\ heap' = h
    /\ tradesOpen' = open
    /\ isOperational' = TRUE
    /\ strategies' = checkStrategyChanges(loads[i].strategies, strategies)
    /\ loads' = RemoveAt(loads, i)
    /\ nLoaded' = nLoaded + 1

\* The hub sends the strategies the user follows.
onUserPayload(newStrategies) ==
    /\ nPayloads < MaxPayloads
    /\ nPayloads' = nPayloads + 1
    /\ IF ~isOperational
       THEN /\ loads' = Append(loads, [strategies |-> newStrategies, stage |-> "list",
                                       trades |-> <<>>])
            /\ UNCHANGED strategies
       ELSE /\ strategies' = checkStrategyChanges(newStrategies, strategies)
            /\ UNCHANGED loads
    /\ UNCHANGED <<aside, env, hub, prices, isOperational, heap, tradesOpen, tradesClosing, queue, running,
                   pc, anythingDone, transactions, acks, lastCall, skipped, nSignals, nOps,
                   nLoaded>>

\* getTradeOpenList answered.  Trades restored from the database are kept;
\* otherwise the hub's trades are checked and the balances are fetched.
LoadTradeList(i, prevTrades) ==
    /\ i \in 1..Len(loads)
    /\ loads[i].stage = "list"
    /\ LET p == loadPersisted(heap, tradesOpen, prevTrades)
           known == {k \in 1..Len(prevTrades) :
                        /\ loads[i].strategies[prevTrades[k].strategyId] # NoStrategy
                        /\ (prevTrades[k].positionType = SHORT => prevTrades[k].priceSell # 0)
                        /\ (prevTrades[k].positionType = LONG => prevTrades[k].priceBuy # 0)
                        /\ prevTrades[k].symbol \in DOMAIN markets}
           typed == [k \in 1..Len(prevTrades) |->
                        IF k \in known
                        THEN [prevTrades[k] EXCEPT !.tradingType =
                                 loads[i].strategies[prevTrades[k].strategyId].tradingType]
                        ELSE prevTrades[k]]
       IN  IF tradesOpen # <<>>
           THEN loaded(i, p.heap, p.open)
           ELSE /\ loads' = [loads EXCEPT ![i].stage = "balances",
                                          ![i].trades = keepGood(typed, (1..Len(prevTrades)) \ known, 1)]
                /\ UNCHANGED <<heap, tradesOpen, isOperational, strategies, nLoaded>>
    /\ UNCHANGED <<aside, env, hub, prices, tradesClosing, queue, running, pc, anythingDone, transactions,
                   acks, lastCall, skipped, nSignals, nOps, nPayloads>>

\* fetchBalance answered for both wallets.
LoadBalances(i, free, loans) ==
    /\ i \in 1..Len(loads)
    /\ loads[i].stage = "balances"
    /\ LET a == allocate(heap, matchBalances(loads[i].trades, free, loans), <<>>)
       IN  loaded(i, a.heap, a.open)
    /\ UNCHANGED <<aside, env, hub, prices, tradesClosing, queue, running, pc, anythingDone, transactions,
                   acks, lastCall, skipped, nSignals, nOps, nPayloads>>

\* ------------------------------------------------------ operator actions
findById(h, open, id) ==
    LET f == FilterSeq(open, {r \in SeqToSet(open) : h[r].id = id})
    IN  IF f = <<>> THEN 0 ELSE f[1]

operated ==
    /\ nOps < MaxOps
    /\ nOps' = nOps + 1
    /\ UNCHANGED <<aside, env, hub, prices, isOperational, running, pc, anythingDone, transactions, acks,
                   lastCall, skipped, nSignals, nPayloads, loads, nLoaded>>

\* Close from the web page: an exit of manual source without a signal.
closeTrade(tradeId) ==
    /\ operated
    /\ LET r == findById(heap, tradesOpen, tradeId)
           h1 == IF heap[r].positionType = SHORT
                 THEN [heap EXCEPT ![r].priceBuy = IF @ = 0 THEN heap[r].priceSell ELSE @]
                 ELSE [heap EXCEPT ![r].priceSell = IF @ = 0 THEN heap[r].priceBuy ELSE @]
       IN  IF r # 0 /\ r \notin tradesClosing
           THEN /\ heap' = h1
                /\ tradesClosing' = scheduleClosing(tradesClosing, r, EXIT)
                /\ queue' = scheduleQueue(queue, h1, r, EXIT, MANUAL, NoSignal)
           ELSE UNCHANGED <<heap, tradesClosing, queue>>
    /\ UNCHANGED <<strategies, tradesOpen>>

deleteTrade(tradeId) ==
    /\ operated
    /\ LET r == findById(heap, tradesOpen, tradeId)
       IN  tradesOpen' = IF r # 0 THEN removeTradeOpen(tradesOpen, r) ELSE tradesOpen
    /\ UNCHANGED <<strategies, heap, tradesClosing, queue>>

setTradeStopped(tradeId, stop) ==
    /\ operated
    /\ LET r == findById(heap, tradesOpen, tradeId)
       IN  heap' = IF r # 0 THEN [heap EXCEPT ![r].isStopped = stop] ELSE heap
    /\ UNCHANGED <<strategies, tradesOpen, tradesClosing, queue>>

setTradeHODL(tradeId, hodl) ==
    /\ operated
    /\ LET r == findById(heap, tradesOpen, tradeId)
       IN  heap' = IF r # 0 THEN [heap EXCEPT ![r].isHodl = hodl] ELSE heap
    /\ UNCHANGED <<strategies, tradesOpen, tradesClosing, queue>>

setStrategyStopped(stratId, stop) ==
    /\ operated
    /\ strategies' = IF strategies[stratId] = NoStrategy THEN strategies
                     ELSE [strategies EXCEPT ![stratId].isStopped = stop,
                                             ![stratId].lossTradeRun = IF stop THEN @ ELSE 0]
    /\ UNCHANGED <<heap, tradesOpen, tradesClosing, queue>>

\* ------------------------------------------------------ inputs
\* The strategies the hub may send.
Payloads ==
    {[id \in Strats |-> Strategy(id, TRUE, a)] : a \in TradeAmounts} \cup
    {[id \in Strats |-> IF id = "s1" THEN Strategy(id, TRUE, a) ELSE NoStrategy] : a \in TradeAmounts}

\* What fetchBalance may answer for the quote asset: the funds are in one
\* wallet or in none.
Balances(vals) == {f \in [SeqToSet(WalletType) -> vals] : f[MARGIN] = 0 \/ f[SPOT] = 0}

\* A trade an earlier run left in the database.
PersistedTrade(positionType, isExecuted) ==
    [id |-> 1, strategyId |-> "s1", symbol |-> TheSymbol, positionType |-> positionType,
     tradingType |-> REAL, wallet |-> MARGIN, quantity |-> 8, cost |-> 16,
     borrow |-> IF positionType = SHORT THEN 8 ELSE 0,
     priceBuy |-> IF positionType = LONG THEN 2 ELSE 0,
     priceSell |-> IF positionType = SHORT THEN 2 ELSE 0,
     isStopped |-> FALSE, isHodl |-> FALSE, isExecuted |-> isExecuted]

Database(trades) ==
    [trades |-> trades,
     strategies |-> IF trades = <<>> THEN [id \in Strats |-> NoStrategy]
                    ELSE [id \in Strats |-> Strategy(id, TRUE, CHOOSE a \in TradeAmounts : TRUE)]]

World(funds, trades, list, marginFree, loanBase, loanQuote) ==
    [env |-> Env(funds), db |-> Database(trades), list |-> list,
     free |-> [w \in SeqToSet(WalletType) |-> IF w = MARGIN THEN marginFree ELSE 0],
     loans |-> [base |-> loanBase, quote |-> loanQuote]]

\* A trader with a loss limit whose strategies have lost already.
LossWorld(limit, losses) ==
    [World(FUNDS_NONE, <<PersistedTrade(LONG, TRUE)>>, <<HubTrade("s1", LONG, 8, 2, FALSE)>>, 8, 0, 0)
        EXCEPT !.env.STRATEGY_LOSS_LIMIT = limit,
               !.db.strategies = [id \in Strats |->
                                     [@[id] EXCEPT !.lossTradeRun = losses]]]

\* The situations in which the trader starts: its configuration, its
\* database, the open trades the hub lists, and the base asset and the
\* loans the exchange holds.
Worlds ==
    {World(SELL_LARGEST, <<>>, <<>>, 0, 0, 0),
     World(BORROW_MIN, <<>>,
           <<HubTrade("s1", LONG, 8, 2, FALSE), HubTrade("s2", SHORT, 8, 2, FALSE)>>, 8, 4, 4),
     World(BORROW_MIN, <<PersistedTrade(SHORT, TRUE)>>,
           <<HubTrade("s1", SHORT, 8, 2, TRUE)>>, 0, 8, 0),
     World(SELL_LARGEST, <<PersistedTrade(LONG, FALSE)>>,
           <<HubTrade("s1", LONG, 8, 2, FALSE)>>, 8, 0, 0),
     LossWorld(2, 1)}

\* ------------------------------------------------------ specification
InitWorld(w) ==
    /\ env = w.env
    /\ hub = [list |-> w.list, free |-> w.free, loans |-> w.loans]
    /\ strategies = w.db.strategies
    /\ heap = allocate([r \in Refs |-> NoTrade], w.db.trades, <<>>).heap
    /\ tradesOpen = allocate([r \in Refs |-> NoTrade], w.db.trades, <<>>).open
    /\ isOperational = FALSE
    /\ tradesClosing = {}
    /\ queue = <<>>
    /\ running = NoTask
    /\ pc = "idle"
    /\ anythingDone = FALSE
    /\ transactions = <<>>
    /\ acks = <<>>
    /\ lastCall = NoCall
    /\ skipped = ""
    /\ loads = <<>>
    /\ nSignals = 0
    /\ nOps = 0
    /\ nPayloads = 0
    /\ nLoaded = 0

InitEngine == prices = 0 /\ \E w \in Worlds : InitWorld(w)

Init ==
    /\ InitEngine
    /\ balanceHistory = [tt \in TradingTypes |-> <<>>]
    /\ today = 0
    /\ nUpdates = 0
    /\ legal = NoLegal
    /\ rebalance = NoRebalance
    /\ lastKnown = NoneKnown
    /\ virtualBalances = NoBalances
    /\ InitServices

openIds == {heap[r].id : r \in SeqToSet(tradesOpen)}

Next ==
    \/ \E s \in Strats, e \in {ENTER, EXIT}, p \in SignalPrices : onBuySignal(s, e, p)
    \/ \E s \in Strats, e \in {ENTER, EXIT}, p \in SignalPrices : onSellSignal(s, e, p)
    \/ \E s \in Strats, p \in SignalPrices : onCloseTradedSignal(s, NoPosition, p)
    \/ \E s \in Strats : onStopTradedSignal(s, NoPosition)
    \/ TradeStart
    \/ \E ok \in BOOLEAN, fetched \in Balances(FreeVals) : TradeSize(ok, fetched)
    \/ ExecStart
    \/ \E ok \in BOOLEAN : ExecBefore(ok)
    \/ \E ok \in BOOLEAN, p \in FillPrices : ExecMain(ok, p)
    \/ \E ok \in BOOLEAN : ExecAfter(ok)
    \/ \E new \in Payloads : onUserPayload(new)
    \/ \E i \in 1..MaxPayloads : LoadTradeList(i, hub.list)
    \/ \E i \in 1..MaxPayloads : LoadBalances(i, hub.free, hub.loans)
    \/ \E id \in openIds : closeTrade(id)
    \/ \E id \in openIds : deleteTrade(id)
    \/ \E id \in openIds, stop \in BOOLEAN : setTradeStopped(id, stop)
    \/ \E id \in openIds, hodl \in BOOLEAN : setTradeHODL(id, hodl)
    \/ \E s \in Strats, stop \in BOOLEAN : setStrategyStopped(s, stop)

Spec == Init /\ [][Next]_vars

\* ------------------------------------------------------ properties
isExec(task, r, entryType) ==
    task.kind = "exec" /\ task.obj = r /\ task.entryType = entryType

\* The step is one of the worker on the task it is running.
execStep == running.kind = "exec" /\ pc' # pc

\* The hub channel that reports the exit of a trade.
exitChannel(t) == IF t.positionType = SHORT THEN "traded_buy_signal" ELSE "traded_sell_signal"

ack(channel, t) ==
    [channel |-> channel, strategyId |-> t.strategyId, positionType |-> t.positionType,
     id |-> t.id]

\* No two open trades share (strategyId, symbol, positionType).
onePerKey ==
    \A i, j \in 1..Len(tradesOpen) :
        i # j => ~sameTrade(heap[tradesOpen[i]], heap[tradesOpen[j]])

\* The queue is about to start the trade() of an enter signal whose key has
\* an open trade.
duplicateEnter ==
    /\ running = NoTask /\ queue # <<>>
    /\ Head(queue).kind = "trade" /\ Head(queue).signal.entryType = ENTER
    /\ \E r \in SeqToSet(tradesOpen) : sameTrade(heap[r], Head(queue).signal)

\* C1: once the engine is operational the open-trade list holds at most one
\* trade per (strategyId, symbol, positionType), whatever signals, queue
\* tasks and operator actions follow, and the trade() of an enter signal
\* whose key has an open trade, executed or still waiting in the queue, is
\* rejected and opens no trade.  The states are those the signals and tasks
\* lead to from the start of operation: a second loadPreviousOpenTrades,
\* begun before the first returned, that returns later replaces the list
\* and is not one of them.
C1_OneTradePerKey ==
    /\ [](isOperational /\ nLoaded <= 1 => onePerKey)
    /\ [][duplicateEnter /\ TradeStart
            => skipped' # "" /\ running' = NoTask /\ tradesOpen' = tradesOpen /\ heap' = heap]_vars

\* A second enter signal for the key of a trade still waiting in the queue
\* has been rejected.
C1_Witness ==
    /\ isOperational /\ skipped = "existing open trade"
    /\ \E r \in SeqToSet(tradesOpen) :
          /\ ~heap[r].isExecuted
          /\ \E i \in 1..Len(queue) : isExec(queue[i], r, ENTER)

\* C2: the execute task of an exit never starts before the execute task of
\* the entry of the same trade has finished: no exit task of a trade is
\* running or ahead in the queue while its enter task waits, and an open
\* trade that is not executed has its enter task waiting or running.
C2_ExitAfterEnter ==
    /\ \A i \in 1..Len(queue) :
          queue[i].kind = "exec" /\ queue[i].entryType = ENTER
            => /\ ~isExec(running, queue[i].obj, EXIT)
               /\ \A j \in 1..(i - 1) : ~isExec(queue[j], queue[i].obj, EXIT)
    /\ isOperational =>
          \A r \in SeqToSet(tradesOpen) :
              ~heap[r].isExecuted
                => \/ isExec(running, r, ENTER)
                   \/ \E i \in 1..Len(queue) : isExec(queue[i], r, ENTER)

\* The exit signal was validated while the enter task still waited: the
\* exit task is queued behind it.
C2_Witness ==
    \E i, j \in 1..Len(queue) :
        /\ i < j
        /\ queue[i].kind = "exec" /\ queue[i].entryType = ENTER
        /\ isExec(queue[j], queue[i].obj, EXIT) /\ queue[j].source = SIGNAL

\* C3: the rebalance child tasks a sizing schedules are placed in the queue
\* ahead of the enter task of the new trade, and the worker takes the
\* tasks from the head of the queue, so the children run first.
C3_ChildrenBeforeEnter ==
    [][/\ Len(queue') >= Len(queue) /\ SubSeq(queue', 1, Len(queue)) = queue
            => \A i, j \in (Len(queue) + 1)..Len(queue') :
                   /\ queue'[i].kind = "exec" /\ queue'[i].source = REBALANCE
                   /\ queue'[j].kind = "exec" /\ queue'[j].entryType = ENTER
                   => i < j
       /\ running = NoTask /\ running' # NoTask /\ running'.kind = "exec"
            => queue # <<>> /\ running' = Head(queue) /\ queue' = Tail(queue)]_vars

\* A rebalance child waits in the queue ahead of the enter task of a long
\* trade.
C3_Witness ==
    \E i, j \in 1..Len(queue) :
        /\ i < j
        /\ queue[i].kind = "exec" /\ queue[i].source = REBALANCE
        /\ queue[j].kind = "exec" /\ queue[j].entryType = ENTER
        /\ heap[queue[j].obj].positionType = LONG

\* C4: no step of a rebalance child task sends an ack to the hub; the
\* filled order of any other exit sends one, traded_sell_signal for a long
\* trade and traded_buy_signal for a short one.
C4_SilentChildren ==
    [][/\ execStep /\ running.source = REBALANCE => acks' = acks
       /\ execStep /\ running.source # REBALANCE /\ running.entryType = EXIT
             /\ pc = "main" /\ lastCall'.ok
            => /\ Len(acks') > Len(acks)
               /\ acks'[Len(acks) + 1] = ack(exitChannel(heap[running.obj]), heap[running.obj])]_vars

\* A rebalance child has been sold and the exit of a long trade has just
\* been reported.
C4_Witness ==
    /\ \E c \in Refs : heap[c] # NoTrade /\ heap[c].id # c /\ heap[c].isExecuted
    /\ lastCall.step = "main" /\ lastCall.ok /\ lastCall.entryType = EXIT
    /\ lastCall.source = SIGNAL
    /\ acks # <<>> /\ acks[Len(acks)].channel = "traded_sell_signal"

\* The queue is about to start the trade() of an exit signal for a stopped
\* trade.
stoppedExit ==
    /\ running = NoTask /\ queue # <<>>
    /\ Head(queue).kind = "trade" /\ Head(queue).source = SIGNAL
    /\ Head(queue).signal.entryType = EXIT
    /\ \E r \in SeqToSet(tradesOpen) :
          sameTrade(heap[r], Head(queue).signal) /\ heap[r].isStopped

manualCloseEnds(r) ==
    \/ /\ running = NoTask /\ queue # <<>>
       /\ Head(queue).kind = "trade" /\ Head(queue).source = MANUAL
       /\ getTradeOpen(heap, tradesOpen, Head(queue).signal) = r
       /\ TradeStart /\ skipped' # ""
    \/ /\ execStep /\ running.source = MANUAL /\ running.signal # NoSignal
       /\ running.obj = r /\ pc' = "idle"

\* The last request to the exchange was the failed repay that stopped r.
forceStopped(r) ==
    /\ heap[r].isStopped
    /\ lastCall.step = "after" /\ ~lastCall.ok /\ lastCall.obj = r

newAcks == {acks'[i] : i \in (Len(acks) + 1)..Len(acks')}

\* C6 as stated: the manual close of a trade that a failed repay stopped
\* sends both traded_buy_signal and traded_sell_signal to the hub.
C6_ManualCloseSendsBoth ==
    [][\A r \in SeqToSet(tradesOpen) :
          forceStopped(r) /\ manualCloseEnds(r)
            => /\ \E a \in newAcks : a.channel = "traded_buy_signal"
               /\ \E a \in newAcks : a.channel = "traded_sell_signal"]_vars

\* The queue is about to start the trade() of a close for which there is
\* no open trade.
unknownClose ==
    /\ running = NoTask /\ queue # <<>>
    /\ Head(queue).kind = "trade" /\ Head(queue).source = MANUAL
    /\ getTradeOpenFiltered(heap, Head(queue).signal, tradesOpen) = <<>>

fakeTrade(signal) == [strategyId |-> signal.strategyId, positionType |-> LONG, id |-> 0]

\* C6: the step that ends the manual close of a stopped open trade,
\* whether the exit failed or not, takes the trade out of the open list and
\* sends the hub at most the one ack of the trade's own exit channel; both
\* acks are sent only for a close that matches no open trade.
C6_ManualCloseOfStopped ==
    [][/\ \A r \in SeqToSet(tradesOpen) :
             heap[r].isStopped /\ manualCloseEnds(r)
               => /\ r \notin SeqToSet(tradesOpen')
                  /\ Len(acks') <= Len(acks) + 1
                  /\ newAcks \subseteq {ack(exitChannel(heap[r]), heap[r])}
       /\ unknownClose /\ TradeStart
            => acks' = acks \o <<ack("traded_buy_signal", fakeTrade(Head(queue).signal)),
                                 ack("traded_sell_signal", fakeTrade(Head(queue).signal))>>]_vars

\* The exit signal of a trade was filled and the trade stayed, stopped; its
\* manual close then failed at the order and dropped it with one more ack.
C6_Witness ==
    /\ lastCall.step = "main" /\ ~lastCall.ok /\ lastCall.source = MANUAL
    /\ heap[lastCall.obj].isStopped /\ lastCall.obj \notin SeqToSet(tradesOpen)
    /\ Len(acks) = 2
    /\ acks[1] = ack(exitChannel(heap[lastCall.obj]), heap[lastCall.obj])
    /\ acks[2] = acks[1]
    /\ \E i \in 1..Len(transactions) :
          transactions[i].id = lastCall.obj /\ transactions[i].source = SIGNAL

borrowAssetOf(t) == IF t.positionType = LONG THEN TheMarket.quote ELSE TheMarket.base

logged(r, action) ==
    \E i \in 1..Len(transactions) :
        /\ transactions[i].id = r /\ transactions[i].action = action
        /\ transactions[i].asset = borrowAssetOf(heap[r])
        /\ transactions[i].quantity = heap[r].borrow

\* The trade was closed: both orders were filled and it left the list.
closed(r) ==
    /\ r \notin SeqToSet(tradesOpen) /\ r \notin tradesClosing
    /\ heap[r].priceBuy # 0 /\ heap[r].priceSell # 0 /\ ~heap[r].isStopped

\* C7 as stated: the log holds the borrow record of every executed trade
\* with a loan and, once the trade is closed, its repay record as well.
C7_LoanAlwaysLogged ==
    isOperational =>
        \A r \in Refs :
            heap[r] # NoTrade /\ heap[r].id = r /\ heap[r].isExecuted /\ heap[r].borrow > 0
              => /\ logged(r, BORROW)
                 /\ closed(r) => logged(r, REPAY)

transaction(t, source, action, quantity) ==
    [id |-> t.id, source |-> source, action |-> action, asset |-> borrowAssetOf(t),
     quantity |-> quantity]

\* C7: a borrow step that succeeds and a repay step that succeeds each add
\* to the log, as its newest record, the trade's borrow asset and loan; the
\* loan of a trade never changes, so the borrow and repay records of a trade
\* that are both in the log agree; the log keeps the newest MAX_LOG_LENGTH
\* records only, and a trade restored at startup has no borrow record.
C7_LoanLoggedWhenMade ==
    /\ [][/\ execStep /\ pc = "before" /\ lastCall'.ok
               => transactions'[Len(transactions')]
                    = transaction(heap[running.obj], running.source, BORROW, heap[running.obj].borrow)
          /\ execStep /\ pc = "after" /\ lastCall'.ok
               => transactions'[Len(transactions')]
                    = transaction(heap[running.obj], running.source, REPAY, heap[running.obj].borrow)
          /\ \A r \in Refs : heap[r] # NoTrade /\ heap'[r] # NoTrade
               => heap'[r].borrow = heap[r].borrow]_vars
    /\ [](/\ Len(transactions) <= Max(1, MAX_LOG_LENGTH)
          /\ \A i, j \in 1..Len(transactions) :
                /\ transactions[i].id = transactions[j].id
                /\ transactions[i].action = BORROW /\ transactions[j].action = REPAY
                => /\ transactions[i].asset = transactions[j].asset
                   /\ transactions[i].quantity = transactions[j].quantity)

\* The trader started without trades; the loan of a short trade it entered
\* has just been repaid, and the log has dropped the record of the borrow.
C7_Witness ==
    /\ hub.list = <<>>
    /\ lastCall.step = "after" /\ lastCall.ok
    /\ Len(transactions) = MAX_LOG_LENGTH
    /\ transactions[Len(transactions)].action = REPAY
    /\ transactions[Len(transactions)].asset = TheMarket.base
    /\ heap[lastCall.obj].id = lastCall.obj
    /\ ~logged(lastCall.obj, BORROW)

\* C8: the entry of a trade with a loan borrows first and places its order
\* only when the borrow succeeded; the exit of a trade with a loan repays
\* after its order, and only when the order was filled.
C8_BorrowOrderRepay ==
    [][/\ pc = "idle" /\ pc' = "main" /\ running'.entryType = ENTER
            => heap[running'.obj].borrow = 0
       /\ pc = "idle" /\ pc' = "before"
            => running'.entryType = ENTER /\ heap[running'.obj].borrow > 0
       /\ pc = "before" /\ pc' # pc
            => /\ lastCall'.step = "before" /\ lastCall'.action = BORROW
               /\ pc' = IF lastCall'.ok THEN "main" ELSE "idle"
       /\ pc = "main" /\ pc' # pc
            => /\ lastCall'.step = "main"
               /\ pc' = IF /\ lastCall'.ok /\ running.entryType = EXIT
                           /\ heap[running.obj].borrow > 0
                        THEN "after" ELSE "idle"
       /\ pc = "after" /\ pc' # pc
            => lastCall'.step = "after" /\ lastCall'.action = REPAY /\ pc' = "idle"]_vars

\* The borrow of an entry has succeeded and its order is about to be placed.
C8_Witness ==
    /\ pc = "main" /\ running.entryType = ENTER /\ heap[running.obj].borrow > 0
    /\ lastCall.step = "before" /\ lastCall.ok /\ lastCall.obj = running.obj

\* C9 as stated: every open short trade has wallet = margin and
\* borrow = quantity.
C9_ShortBorrowsQuantity ==
    \A r \in SeqToSet(tradesOpen) :
        heap[r].positionType = SHORT
          => heap[r].wallet = MARGIN /\ heap[r].borrow = heap[r].quantity

\* C9: every open short trade is in the margin wallet with a loan of at
\* most its quantity; the loan is the quantity for a short trade created by
\* an enter signal, and may be less for one restored at startup when the
\* loans of the exchange do not cover it.
C9_ShortBorrowsAtMostQuantity ==
    /\ [](\A r \in SeqToSet(tradesOpen) :
            heap[r].positionType = SHORT
              => /\ heap[r].wallet = MARGIN
                 /\ heap[r].borrow >= 0 /\ heap[r].borrow <= heap[r].quantity)
    /\ [][pc = "sizing" /\ pc' # pc
            => \A r \in SeqToSet(tradesOpen') \ SeqToSet(tradesOpen) :
                   heap'[r].positionType = SHORT
                     => heap'[r].wallet = MARGIN /\ heap'[r].borrow = heap'[r].quantity]_vars

\* A short trade restored at startup owes less than its quantity, and one
\* created by an enter signal owes its quantity.
C9_Witness ==
    \E r, x \in SeqToSet(tradesOpen) :
        /\ heap[r].positionType = SHORT /\ heap[r].borrow < heap[r].quantity
        /\ heap[x].positionType = SHORT /\ heap[x].borrow = heap[x].quantity
        /\ ~heap[x].isExecuted

\* The summed cost of the long trades among open that are in wallet w.
longCost(h, open, w) ==
    SumSet(costOf(h), {r \in SeqToSet(open) : h[r].positionType = LONG /\ h[r].wallet = w})

\* The worker has just had the order of a rebalance child filled.
childFilled == execStep /\ running.source = REBALANCE /\ pc = "main" /\ lastCall'.ok

\* C10 as stated: neither the sizing that reduces the parents of rebalance
\* children nor the recording of a child's fill price on its parent leaves
\* the summed cost of the open long trades of a wallet higher than before.
C10_RebalanceNeverRaisesCost ==
    [][\A w \in SeqToSet(WalletType) :
          /\ pc = "sizing" /\ pc' # pc
               => longCost(heap', tradesOpen, w) <= longCost(heap, tradesOpen, w)
          /\ childFilled
               => longCost(heap', tradesOpen', w) <= longCost(heap, tradesOpen, w)]_vars

\* C10: the sizing that schedules rebalance children raises the cost of no
\* open trade; when a child's order is filled at another price than the
\* one the rebalance assumed, the parent is priced and costed again at the
\* fill price (quantity times price, more or less than before), and
\* otherwise it is left as it was.
C10_RebalanceCost ==
    [][/\ pc = "sizing" /\ pc' # pc
            => \A r \in SeqToSet(tradesOpen) : heap'[r].cost <= heap[r].cost
       /\ childFilled
            => \A x \in SeqToSet(tradesOpen) :
                  IF /\ heap[x].id = heap[running.obj].id
                     /\ heap'[running.obj].priceSell # heap[running.obj].priceSell
                  THEN /\ heap'[x].priceSell = heap'[running.obj].priceSell
                       /\ heap'[x].cost = heap'[x].quantity * heap'[running.obj].priceSell
                  ELSE heap'[x].cost = heap[x].cost]_vars

\* A child was filled above the price the rebalance assumed and its parent
\* now costs more than the part the rebalance left it.
C10_Witness ==
    /\ lastCall.step = "main" /\ lastCall.ok /\ lastCall.source = REBALANCE
    /\ \E x \in SeqToSet(tradesOpen) :
          /\ heap[x].id = heap[lastCall.obj].id
          /\ heap[x].priceSell = heap[lastCall.obj].priceSell
          /\ heap[x].priceSell > heap[x].priceBuy
          /\ heap[x].cost = heap[x].quantity * heap[x].priceSell

\* ======================================================= balance history
\* Dates are whole days and a year is YearDays of them.  An optional
\* BigNumber is <<>> when it was not passed and <<v>> when it was.
YearDays == 2
MaxDay == 5
MaxUpdates == 4
NoAmount == <<>>
NoEntry == "none"
Amounts(S) == {NoAmount} \cup {<<v>> : v \in S}

\* The engine's variables, which the clock and the history leave alone.
engine == <<env, hub, prices, isOperational, strategies, heap, tradesOpen, tradesClosing, queue,
            running, pc, anythingDone, transactions, acks, lastCall, skipped,
            nSignals, nOps, nPayloads, loads, nLoaded, virtualBalances, services>>

\* new BalanceHistory(balance): a slice dated today with both balances set.
BalanceHistory(date, balance) ==
    [date |-> date, openBalance |-> balance, closeBalance |-> balance, estimatedFees |-> 0,
     profitLoss |-> 0, minOpenTrades |-> <<>>, maxOpenTrades |-> <<>>,
     totalOpenedTrades |-> 0, totalClosedTrades |-> 0]

lastSlice(hist) == hist[Len(hist)]

\* A slice is pushed unless the last one is of the same date.
pushSlice(hist, date, balance) ==
    IF hist = <<>> \/ lastSlice(hist).date # date
    THEN Append(hist, BalanceHistory(date, balance))
    ELSE hist

\* Update latest balances and stats.
updateSlice(h, maxCount, minCount, close, fees, entryType) ==
    [h EXCEPT !.estimatedFees = fees,
              !.closeBalance = close,
              !.profitLoss = close - h.openBalance + fees,
              !.minOpenTrades = IF @ = <<>> \/ minCount < @[1] THEN <<minCount>> ELSE @,
              !.maxOpenTrades = IF @ = <<>> \/ maxCount > @[1] THEN <<maxCount>> ELSE @,
              !.totalOpenedTrades = IF entryType = ENTER THEN @ + 1 ELSE @,
              !.totalClosedTrades = IF entryType = EXIT THEN @ + 1 ELSE @]

\* Slices after the first that are a year old are removed from the front,
\* their fees going to the first slice.
RECURSIVE dropOldFromStart(_, _)
dropOldFromStart(hist, lastYear) ==
    IF Len(hist) > 1 /\ hist[2].date <= lastYear
    THEN dropOldFromStart(<<[hist[2] EXCEPT !.estimatedFees = @ + hist[1].estimatedFees]>>
                              \o SubSeq(hist, 3, Len(hist)), lastYear)
    ELSE hist

RECURSIVE dropOld(_, _)
dropOld(hist, lastYear) ==
    IF Len(hist) > 1 /\ hist[2].date <= lastYear
    THEN dropOld(<<[hist[1] EXCEPT !.estimatedFees = @ + hist[2].estimatedFees]>>
                     \o SubSeq(hist, 3, Len(hist)), lastYear)
    ELSE hist

updatedHistory(hist, date, count, entryType, balance, change, fee) ==
    dropOld([hist EXCEPT ![Len(hist)] =
                updateSlice(@, count + (IF entryType = EXIT THEN 1 ELSE 0),
                            count + (IF entryType = EXIT THEN 1 ELSE 0)
                                  - (IF entryType # NoEntry THEN 1 ELSE 0),
                            balance + (IF change = NoAmount THEN 0 ELSE change[1]),
                            @.estimatedFees + (IF fee = NoAmount THEN 0 ELSE fee[1]),
                            entryType)],
            date - YearDays)

\* Updates the running balance for the current day.
updateBalanceHistory(hist, date, count, entryType, balance, change, fee) ==
    IF hist = <<>> /\ balance = NoAmount
    THEN hist
    ELSE IF balance = NoAmount
         THEN updatedHistory(pushSlice(hist, date, lastSlice(hist).closeBalance), date, count,
                             entryType, lastSlice(hist).closeBalance, change, fee)
         ELSE updatedHistory(pushSlice(hist, date, balance[1]), date, count,
                             entryType, balance[1], change, fee)

\* The open trades of a trading type (the model has the one quote asset).
openTradesOf(tradingType) ==
    Cardinality({r \in SeqToSet(tradesOpen) : heap[r].tradingType = tradingType})

\* A caller updates the history of a trading type today.
BalanceUpdate(tradingType, entryType, balance, change, fee) ==
    /\ nUpdates < MaxUpdates
    /\ nUpdates' = nUpdates + 1
    /\ balanceHistory' = [balanceHistory EXCEPT ![tradingType] =
           updateBalanceHistory(@, today, openTradesOf(tradingType), entryType, balance, change, fee)]
    /\ UNCHANGED <<engine, today, legal, rebalance, lastKnown>>

deleteBalanceHistory(tradingType) ==
    /\ balanceHistory[tradingType] # <<>>
    /\ balanceHistory' = [balanceHistory EXCEPT ![tradingType] = <<>>]
    /\ UNCHANGED <<engine, today, nUpdates, legal, rebalance, lastKnown>>

\* Days go by.
Midnight(days) ==
    /\ today + days <= MaxDay
    /\ today' = today + days
    /\ UNCHANGED <<engine, balanceHistory, nUpdates, legal, rebalance, lastKnown>>

NextHistory ==
    \/ \E tt \in TradingTypes, b \in {8} :                   \* from loadWalletBalances
          BalanceUpdate(tt, NoEntry, <<b>>, NoAmount, NoAmount)
    \/ \E tt \in TradingTypes, e \in {NoEntry, ENTER, EXIT}, c \in Amounts({1}) :
          BalanceUpdate(tt, e, NoAmount, c, <<-1>>)            \* from executeTradingTask
    \/ \E tt \in TradingTypes : deleteBalanceHistory(tt)
    \/ \E days \in 1..YearDays + 1 : Midnight(days)

SpecHistory == Init /\ [][NextHistory]_vars

increasingDays(hist) == \A i, j \in 1..Len(hist) : i < j => hist[i].date < hist[j].date

\* The slices that were a year old at the last update.
oldSlices(hist) == {i \in 1..Len(hist) : hist[i].date <= lastSlice(hist).date - YearDays}

RECURSIVE totalFees(_)
totalFees(hist) == IF hist = <<>> THEN 0 ELSE Head(hist).estimatedFees + totalFees(Tail(hist))

\* C11 as stated: every history has strictly increasing days and exactly one
\* slice older than one year.
C11_ExactlyOneOldSlice ==
    \A tt \in TradingTypes :
        balanceHistory[tt] # <<>> =>
            /\ increasingDays(balanceHistory[tt])
            /\ Cardinality(oldSlices(balanceHistory[tt])) = 1

\* C11: every history has strictly increasing days, and at most one slice
\* older than one year, which is the first; an update never drops or redates
\* the first slice and the fees of the slices it drops stay in the total.
C11_OldSlicesRolledUp ==
    /\ [](\A tt \in TradingTypes :
            /\ increasingDays(balanceHistory[tt])
            /\ oldSlices(balanceHistory[tt]) \subseteq {1})
    /\ [][\A tt \in TradingTypes :
            balanceHistory[tt] # <<>> /\ balanceHistory'[tt] # <<>> =>
                /\ balanceHistory'[tt][1].date = balanceHistory[tt][1].date
                /\ balanceHistory'[tt][1].openBalance = balanceHistory[tt][1].openBalance
                /\ totalFees(balanceHistory'[tt]) - totalFees(balanceHistory[tt]) \in {0, -1}]_vars

\* A first slice older than a year carries more fees than its own day made:
\* those of a slice that was dropped.
C11_Witness ==
    \E tt \in TradingTypes :
        /\ Len(balanceHistory[tt]) >= 2
        /\ oldSlices(balanceHistory[tt]) = {1}
        /\ balanceHistory[tt][1].estimatedFees <
               balanceHistory[tt][1].profitLoss - balanceHistory[tt][1].closeBalance
                   + balanceHistory[tt][1].openBalance

\* ================================================== quantity legalisation
\* Markets whose limits leave room between the minimum and each maximum, in
\* lot steps; prices and quantities (in half lots) to legalise.
MaxLots == 6
LegalMarkets ==
    {m \in [symbol : {TheSymbol}, base : {"ETH"}, quote : {"BTC"}, spot : {TRUE}, margin : {TRUE},
            amountMin : {1, 2}, amountMax : {0, 3, MaxLots}, marketMax : {0, 4},
            costMin : {4, 5}, costMax : {0, 20}] :
        /\ m.amountMax # 0 => m.amountMin <= m.amountMax
        /\ m.marketMax # 0 => m.amountMin <= m.marketMax}
LegalPrices == {1, 2, 3}
LegalQtys == {Rat(n, 2) : n \in 0..2 * MaxLots + 2}

InitLegal ==
    /\ prices = 0
    /\ InitWorld(CHOOSE w \in Worlds : w.list = <<>>)
    /\ balanceHistory = [tt \in TradingTypes |-> <<>>]
    /\ today = 0
    /\ nUpdates = 0
    /\ rebalance = NoRebalance
    /\ lastKnown = NoneKnown
    /\ virtualBalances = NoBalances
    /\ InitServices
    /\ legal \in [stage : {"in"}, qty : LegalQtys, market : LegalMarkets, price : LegalPrices]

\* The quantity is legalised.
Legalise ==
    /\ legal.stage = "in"
    /\ legal' = [stage |-> "once", qty |-> legal.qty, market |-> legal.market, price |-> legal.price,
                 once |-> getLegalQty(legal.qty, legal.market, legal.price)]
    /\ UNCHANGED <<engine, balanceHistory, today, nUpdates, rebalance, lastKnown>>

\* The legal quantity is legalised again.
LegaliseAgain ==
    /\ legal.stage = "once"
    /\ legal' = [stage |-> "twice", qty |-> legal.qty, market |-> legal.market, price |-> legal.price,
                 once |-> legal.once,
                 twice |-> getLegalQty(RInt(legal.once), legal.market, legal.price)]
    /\ UNCHANGED <<engine, balanceHistory, today, nUpdates, rebalance, lastKnown>>

NextLegal == Legalise \/ LegaliseAgain

SpecLegal == InitLegal /\ [][NextLegal]_vars

\* C12 as stated: legalising a legal quantity gives the same quantity, for
\* every market, price and input quantity.
C12_LegalQtyIdempotent == legal.stage = "twice" => legal.twice = legal.once

\* ============================================================ rebalancing
\* rebalanceTrade on its own: a long trade of the database, a cached price or
\* none, and target costs for the calls.
MaxRebalances == 2
RebalanceTrades ==
    {[PersistedTrade(LONG, e) EXCEPT !.quantity = q, !.cost = 2 * q, !.priceSell = p] :
        e \in BOOLEAN, q \in {4, 8}, p \in {0, 3}}
TargetCosts == {RInt(0), RInt(2), RInt(4), RInt(10), Rat(27, 2), RInt(15), RInt(16)}

InitRebalance ==
    /\ prices \in {0, 1}
    /\ \E t \in RebalanceTrades : InitWorld(World(SELL_LARGEST, <<t>>, <<>>, 0, 0, 0))
    /\ balanceHistory = [tt \in TradingTypes |-> <<>>]
    /\ today = 0
    /\ nUpdates = 0
    /\ legal = NoLegal
    /\ rebalance = [trade |-> 0, cost |-> RInt(0), free |-> 0, locked |-> 16, stamped |-> {},
                    calls |-> 0]
    /\ lastKnown = NoneKnown
    /\ virtualBalances = NoBalances
    /\ InitServices

\* calculateTradeSize calls rebalanceTrade for a trade of the wallet.
Rebalance(r, cost) ==
    /\ rebalance.calls < MaxRebalances
    /\ r \in SeqToSet(tradesOpen)
    /\ LET st == rebalanceTrade([heap |-> heap, queue |-> queue, closing |-> tradesClosing,
                                 free |-> rebalance.free, locked |-> rebalance.locked,
                                 stamped |-> {}], r, cost)
       IN  /\ heap' = st.heap
           /\ queue' = st.queue
           /\ tradesClosing' = st.closing
           /\ rebalance' = [trade |-> r, cost |-> cost, free |-> st.free, locked |-> st.locked,
                            stamped |-> st.stamped, calls |-> rebalance.calls + 1]
    /\ UNCHANGED <<env, hub, prices, isOperational, strategies, tradesOpen, running, pc,
                   anythingDone, transactions, acks, lastCall, skipped, nSignals, nOps, nPayloads,
                   loads, nLoaded, balanceHistory, today, nUpdates, legal, lastKnown,
                   virtualBalances, services>>

NextRebalance == \E r \in Refs, cost \in TargetCosts : Rebalance(r, cost)

SpecRebalance == InitRebalance /\ [][NextRebalance]_vars

\* The price the trade is to be sold at, the cost the sale has to free and
\* the legal quantity to sell for it.
sellPrice(t) == IF prices # 0 THEN prices ELSE IF t.priceSell # 0 THEN t.priceSell ELSE t.priceBuy
neededCost(t, cost) == RSub(RInt(t.cost), cost)
legalSell(t, cost) ==
    getLegalQty(Rat(neededCost(t, cost)[1], neededCost(t, cost)[2] * sellPrice(t)),
                markets[t.symbol], sellPrice(t))

\* The rebalance of trade t to the cost is one the claim calls rejected.
rejects(t, cost) ==
    /\ t.borrow = 0 /\ t.priceBuy # 0 /\ RGt(RInt(t.cost), cost)
    /\ \/ RGt(RInt(legalSell(t, cost) * sellPrice(t)),
              Rat(2 * neededCost(t, cost)[1], neededCost(t, cost)[2]))
       \/ legalSell(t, cost) >= t.quantity
       \/ getLegalQty(RInt(t.quantity - legalSell(t, cost)), markets[t.symbol], sellPrice(t))
              > t.quantity - legalSell(t, cost)

rejected == rebalance'.calls # rebalance.calls /\ rejects(heap[rebalance'.trade], rebalance'.cost)

\* C13 as stated: a rejected rebalance schedules no child and leaves the
\* quantity, cost, priceSell and timestamps of the parent as they were.
C13_RejectionLeavesTrade ==
    [][rejected => /\ queue' = queue /\ tradesClosing' = tradesClosing
                   /\ heap' = heap
                   /\ rebalance'.stamped = {}]_vars

\* C13: a rejected rebalance schedules no child and leaves the quantity, cost
\* and timestamps of the parent as they were, and every other trade; the
\* parent's priceSell is the price the sale was worked out at.
C13_RejectionKeepsQuantity ==
    [][rejected => /\ queue' = queue /\ tradesClosing' = tradesClosing
                   /\ heap' = [heap EXCEPT ![rebalance'.trade].priceSell =
                                               sellPrice(heap[rebalance'.trade])]
                   /\ rebalance'.stamped = {}
                   /\ rebalance'.free = rebalance.free /\ rebalance'.locked = rebalance.locked]_vars

\* A rebalance was rejected: the trade has its quantity and cost, and the
\* priceSell it did not have before.
C13_Witness ==
    /\ rebalance.calls > 0
    /\ rebalance.stamped = {} /\ queue = <<>>
    /\ rejects(heap[rebalance.trade], rebalance.cost)
    /\ prices = 0
    /\ heap[rebalance.trade].priceSell = heap[rebalance.trade].priceBuy
    /\ heap[rebalance.trade].quantity * 2 = heap[rebalance.trade].cost

\* ============================================================= trade size
\* calculateTradeSize on its own: an enter signal has passed validation and
\* trade() waits for the balances, which are those the exchange holds.
SizeAmounts == {4, 16}
SizePrices == {2, 4}
SizeFrees == {0, 5, 7, 16}
SizeFunds == {FUNDS_NONE, BORROW_MIN, BORROW_ALL, SELL_ALL, SELL_LARGEST}

InitSize ==
    /\ env \in {Env(funds) : funds \in SizeFunds}
    /\ hub \in [list : {<<>>}, free : Balances(SizeFrees), loans : {[base |-> 0, quote |-> 0]}]
    /\ \E trades \in {<<>>, <<PersistedTrade(LONG, TRUE)>>} :
          /\ heap = allocate([r \in Refs |-> NoTrade], trades, <<>>).heap
          /\ tradesOpen = allocate([r \in Refs |-> NoTrade], trades, <<>>).open
    /\ \E a \in SizeAmounts, p \in SizePrices, position \in {LONG, SHORT} :
          /\ strategies = [id \in Strats |-> Strategy(id, TRUE, a)]
          /\ running = [kind |-> "trade", signal |-> Signal("s2", ENTER, position, p),
                        source |-> SIGNAL, strategy |-> Strategy("s2", TRUE, a)]
    /\ pc = "sizing"
    /\ isOperational = TRUE
    /\ prices = 0
    /\ tradesClosing = {}
    /\ queue = <<>>
    /\ anythingDone = FALSE
    /\ transactions = <<>>
    /\ acks = <<>>
    /\ lastCall = NoCall
    /\ skipped = ""
    /\ loads = <<>>
    /\ nSignals = 1
    /\ nOps = 0
    /\ nPayloads = 1
    /\ nLoaded = 1
    /\ balanceHistory = [tt \in TradingTypes |-> <<>>]
    /\ today = 0
    /\ nUpdates = 0
    /\ legal = NoLegal
    /\ rebalance = NoRebalance
    /\ lastKnown = NoneKnown
    /\ virtualBalances = NoBalances
    /\ InitServices

NextSize == \E ok \in BOOLEAN : TradeSize(ok, hub.free)

SpecSize == InitSize /\ [][NextSize]_vars

sized == running.kind = "trade" /\ pc = "sizing" /\ pc' = "idle" /\ skipped' # "no balances"
created == tradesOpen' # tradesOpen
newTrade == heap'[tradesOpen'[Len(tradesOpen')]]
legalTrade(t, price) ==
    /\ t.quantity >= markets[t.symbol].amountMin
    /\ RGe(RInt(t.quantity * price), getMinCost(markets[t.symbol]))

\* The cost the strategy asks for, the cost of its legal quantity, the most
\* that a wallet holds, and the funding models that add nothing to it.
rawCost == running.strategy.tradeAmount
raisedCost ==
    running.signal.price * getLegalQty(Rat(rawCost, running.signal.price),
                                       markets[running.signal.symbol], running.signal.price)
freeFunds == Max(hub.free[MARGIN], hub.free[SPOT])
cannotCover ==
    /\ running.signal.positionType = LONG
    /\ \/ env.TRADE_LONG_FUNDS = FUNDS_NONE
       \/ env.TRADE_LONG_FUNDS \in {SELL_ALL, SELL_LARGEST} /\ tradesOpen = <<>>
notCreated == ~created /\ skipped' = "no funds" /\ heap' = heap /\ queue' = queue

\* C14 as stated: a created trade has a legal quantity and cost, and a raw
\* cost below the minimum, raised, that exceeds the free funds with nothing
\* to cover the difference is rejected.
C14_RaisedCostNeedsFunds ==
    [][sized => /\ created => legalTrade(newTrade, running.signal.price)
                /\ RLt(RInt(rawCost), getMinCost(markets[running.signal.symbol]))
                       /\ raisedCost > freeFunds /\ cannotCover => notCreated]_vars

\* C14: a created trade has a legal quantity and cost, and free funds below
\* the minimum cost with nothing to cover the difference reject the signal
\* whenever the legal cost exceeds them.
C14_MinimumCostNeedsFunds ==
    [][sized => /\ created => legalTrade(newTrade, running.signal.price)
                /\ RLt(RInt(freeFunds), getMinCost(markets[running.signal.symbol]))
                       /\ raisedCost > freeFunds /\ cannotCover => notCreated]_vars

\* A strategy amount below the minimum cost was raised to it and the trade
\* created; and the same amount was rejected for want of funds.
C14_Witness ==
    /\ pc = "idle" /\ skipped = "" /\ tradesOpen # <<>>
    /\ strategies["s2"].tradeAmount = 4
    /\ heap[tradesOpen[Len(tradesOpen)]].strategyId = "s2"
    /\ heap[tradesOpen[Len(tradesOpen)]].positionType = LONG
    /\ heap[tradesOpen[Len(tradesOpen)]].cost = 6
    /\ env.TRADE_LONG_FUNDS = FUNDS_NONE

\* ============================================================= loss limit
enterChecked == TradeStart /\ Head(queue).signal.entryType = ENTER
enterOf == strategies[Head(queue).signal.strategyId]
activeTrades(strategyId) ==
    {r \in SeqToSet(tradesOpen) :
        heap[r].strategyId = strategyId /\ ~heap[r].isStopped /\ ~heap[r].isHodl}
thresholdReason == "threshold for limiting open trades"

\* The losses have reached the threshold and, with the open trades, the limit.
thresholdHit(strategy) ==
    /\ env.STRATEGY_LOSS_LIMIT > 0
    /\ strategy.lossTradeRun * 100 >= env.STRATEGY_LOSS_LIMIT * STRATEGY_LIMIT_THRESHOLD_PCT
    /\ Cardinality(activeTrades(strategy.id)) >= env.STRATEGY_LOSS_LIMIT - strategy.lossTradeRun

\* C15: with a loss limit, an enter signal of a followed strategy is rejected
\* whenever its losses have reached the threshold and its open trades that
\* are neither stopped nor HODL are at least the limit less the losses (for
\* that reason when no earlier check rejects it), and for that reason in no
\* other case.
C15_ThresholdLimitsEnters ==
    [][enterChecked /\ enterOf # NoStrategy =>
          /\ thresholdHit(enterOf) => skipped' # "" /\ running' = NoTask /\ tradesOpen' = tradesOpen
          /\ thresholdHit(enterOf) /\ enterOf.isActive /\ ~enterOf.isStopped
                 /\ getTradeOpen(heap, tradesOpen, Head(queue).signal) = 0
                 => skipped' = thresholdReason
          /\ ~thresholdHit(enterOf) => ~(running' = NoTask /\ skipped' = thresholdReason)]_vars

\* An enter signal was turned down at the threshold: one loss of a limit of
\* two, and one open trade.
C15_Witness ==
    /\ skipped = thresholdReason
    /\ env.STRATEGY_LOSS_LIMIT = 2
    /\ \E s \in Strats :
          /\ strategies[s] # NoStrategy /\ ~strategies[s].isStopped
          /\ strategies[s].lossTradeRun = 1
          /\ Cardinality(activeTrades(s)) = 1

\* The worker has finished an exit that a signal asked for.
exitCompleted ==
    /\ execStep /\ running' = NoTask /\ lastCall'.ok
    /\ running.entryType = EXIT /\ running.source = SIGNAL
exitedOf == strategies[heap[running.obj].strategyId]
lossesOf(strats, id) == strats[id].lossTradeRun

\* C16: with a loss limit, each exit a signal asked for adds one to the
\* lossTradeRun of its strategy when it loses after fees and sets it to 0
\* when it wins; a strategy whose lossTradeRun has reached the limit is
\* stopped; and every enter signal of a stopped strategy is rejected.
C16_LossLimitStopsStrategy ==
    /\ [](env.STRATEGY_LOSS_LIMIT > 0 =>
            \A s \in Strats :
                strategies[s] # NoStrategy /\ strategies[s].lossTradeRun >= env.STRATEGY_LOSS_LIMIT
                    => strategies[s].isStopped)
    /\ [][exitCompleted /\ exitedOf # NoStrategy /\ env.STRATEGY_LOSS_LIMIT > 0 =>
            lossesOf(strategies', exitedOf.id) =
                IF PnLIsLoss(heap'[running.obj].priceBuy, heap'[running.obj].priceSell)
                THEN lossesOf(strategies, exitedOf.id) + 1 ELSE 0]_vars
    /\ [][enterChecked /\ enterOf # NoStrategy /\ enterOf.isStopped =>
            skipped' # "" /\ running' = NoTask /\ tradesOpen' = tradesOpen]_vars

\* The loss that reached the limit stopped the strategy, and its next enter
\* signal was rejected.
C16_Witness ==
    /\ env.STRATEGY_LOSS_LIMIT = 2
    /\ strategies["s1"] # NoStrategy
    /\ strategies["s1"].lossTradeRun = 2 /\ strategies["s1"].isStopped
    /\ nOps = 0
    /\ skipped = "strategy has been stopped"


\* ------------------------------------------------ validation of an exit
\* checkTradingData on its own: one exit signal waits in the queue for one
\* open trade, at a price below, at and above the price the trade opened at.
CheckPrices == {1, 2, 3}

CheckedTrades ==
    {[PersistedTrade(position, TRUE) EXCEPT !.isHodl = hodl, !.isStopped = stopped] :
        position \in {LONG, SHORT}, hodl \in BOOLEAN, stopped \in BOOLEAN}

CheckedStrategies ==
    {NoStrategy} \cup
        {[Strategy("s1", active, 16) EXCEPT !.isStopped = stopped] :
            active \in BOOLEAN, stopped \in BOOLEAN}

CheckedTasks ==
    {TradeTask(Signal("s1", EXIT, position, price), source) :
        position \in {LONG, SHORT, NoPosition}, price \in CheckPrices,
        source \in {SIGNAL, MANUAL}}

InitCheck ==
    /\ env = Env(FUNDS_NONE)
    /\ hub = [list |-> <<>>, free |-> [w \in SeqToSet(WalletType) |-> 0],
              loans |-> [base |-> 0, quote |-> 0]]
    /\ \E t \in CheckedTrades :
          /\ heap = allocate([r \in Refs |-> NoTrade], <<t>>, <<>>).heap
          /\ tradesOpen = allocate([r \in Refs |-> NoTrade], <<t>>, <<>>).open
    /\ \E s \in CheckedStrategies :
          strategies = [id \in Strats |-> IF id = "s1" THEN s ELSE Strategy(id, TRUE, 16)]
    /\ \E task \in CheckedTasks : queue = <<task>>
    /\ tradesClosing \in {{}, {1}}
    /\ running = NoTask
    /\ pc = "idle"
    /\ isOperational = TRUE
    /\ prices = 0
    /\ anythingDone = FALSE
    /\ transactions = <<>>
    /\ acks = <<>>
    /\ lastCall = NoCall
    /\ skipped = ""
    /\ loads = <<>>
    /\ nSignals = 1
    /\ nOps = 0
    /\ nPayloads = 1
    /\ nLoaded = 1
    /\ balanceHistory = [tt \in TradingTypes |-> <<>>]
    /\ today = 0
    /\ nUpdates = 0
    /\ legal = NoLegal
    /\ rebalance = NoRebalance
    /\ lastKnown = NoneKnown
    /\ virtualBalances = NoBalances
    /\ InitServices

NextCheck == TradeStart

SpecCheck == InitCheck /\ [][NextCheck]_vars

\* The exit the queue is about to validate, its trade and its strategy.
exitChecked == TradeStart /\ Head(queue).signal.entryType = EXIT
exitTrade == getTradeOpen(heap, tradesOpen, Head(queue).signal)
exitStrategy == strategies[Head(queue).signal.strategyId]
exitHeld ==
    /\ exitTrade # 0
    /\ \/ heap[exitTrade].isHodl
       \/ exitStrategy = NoStrategy
       \/ exitStrategy.isStopped
exitAccepted ==
    /\ exitTrade \notin tradesClosing
    /\ tradesClosing' = tradesClosing \cup {exitTrade}
    /\ queue' # <<>>
    /\ queue'[Len(queue')].kind = "exec"
    /\ queue'[Len(queue')].obj = exitTrade
exitRejected ==
    /\ skipped' # ""
    /\ queue' = Tail(queue)
    /\ tradesClosing' = tradesClosing
    /\ running' = NoTask

\* The profit of the exit at the signal's price is negative once the taker
\* fee is taken from both legs.
exitLoses ==
    LET t == heap[exitTrade]
        price == Head(queue).signal.price
        buy == IF t.positionType = LONG THEN t.priceBuy ELSE price
        sell == IF t.positionType = LONG THEN price ELSE t.priceSell
    IN  sell * (100000 - TAKER_FEE_MILLIPCT) < buy * (100000 + TAKER_FEE_MILLIPCT)

\* C17: an exit signal of automatic source for a trade that is HODL, or
\* whose strategy is stopped or not followed, is accepted only when the
\* profit at the signal's price, fees on both legs, is not negative, and is
\* rejected when it is negative; a manual close of the same trade, not
\* already closing, is accepted at every price.
C17_HeldTradeExitsOnlyInProfit ==
    /\ [][exitChecked /\ exitHeld /\ Head(queue).source = SIGNAL =>
            /\ exitAccepted => ~exitLoses
            /\ exitLoses => exitRejected /\ heap' = heap]_vars
    /\ [][exitChecked /\ exitHeld /\ Head(queue).source = MANUAL
              /\ exitTrade \notin tradesClosing => exitAccepted]_vars

\* A HODL long trade bought at 2 is closing on a signal at 3, and the task
\* that sells it is in the queue.
C17_Witness ==
    /\ Len(queue) = 1
    /\ queue[1].kind = "exec"
    /\ queue[1].source = SIGNAL
    /\ queue[1].entryType = EXIT
    /\ heap[queue[1].obj].isHodl
    /\ heap[queue[1].obj].priceBuy = 2
    /\ heap[queue[1].obj].priceSell = 3
    /\ queue[1].obj \in tradesClosing


\* ------------------------------------------------ stopped trades
\* The hub's stop signal arrives while the trader is operational.
stopSignalled(s) == onStopTradedSignal(s, NoPosition) /\ isOperational
stoppedBy(s) == getTradeOpen(heap, tradesOpen, Signal(s, EXIT, NoPosition, 0))

\* A stop signal does no more than set the flag of the trade it matches.
stopOnlySetsFlag ==
    \A s \in Strats :
        stopSignalled(s) =>
            /\ heap' = IF stoppedBy(s) = 0 THEN heap
                       ELSE [heap EXCEPT ![stoppedBy(s)].isStopped = TRUE]
            /\ UNCHANGED <<queue, running, pc, lastCall, transactions, acks, tradesOpen,
                           tradesClosing, strategies>>

\* The worker sends the exchange the order of an exit that a signal asked for.
exitOrdered ==
    /\ execStep /\ pc = "main"
    /\ running.source = SIGNAL /\ running.entryType = EXIT

\* C18 as stated: the order of an exit that a signal asked for never goes
\* to the exchange while its trade is stopped.
C18_StoppedTradeNeverExits ==
    /\ [][stopOnlySetsFlag]_vars
    /\ [][exitOrdered => ~heap[running.obj].isStopped]_vars

\* C18: a stop signal only sets isStopped on the open trade it matches: the
\* queue, the requests to the exchange and the open list stay as they are;
\* while a trade is stopped every exit signal of automatic source for it is
\* rejected and leaves it as it is (an exit accepted before the stop is
\* still executed), and its manual close, unless it is closing already, is
\* accepted.
C18_StoppedTradeIgnoresSignals ==
    /\ [][stopOnlySetsFlag]_vars
    /\ [][exitChecked /\ exitTrade # 0 /\ heap[exitTrade].isStopped
              /\ Head(queue).source = SIGNAL
            => exitRejected /\ heap' = heap /\ lastCall' = lastCall]_vars
    /\ [][exitChecked /\ exitTrade # 0 /\ heap[exitTrade].isStopped
              /\ Head(queue).source = MANUAL /\ exitTrade \notin tradesClosing
            => exitAccepted]_vars

\* The hub listed the trade as running, a stop signal stopped it, and the
\* exit signal that followed was rejected without a request to the exchange.
C18_Witness ==
    /\ nSignals = 2 /\ nOps = 0
    /\ skipped = "trade is stopped"
    /\ lastCall = NoCall
    /\ queue = <<>>
    /\ \A i \in 1..Len(hub.list) : ~hub.list[i].isStopped
    /\ \E r \in SeqToSet(tradesOpen) : heap[r].isStopped /\ r \notin tradesClosing


\* ------------------------------------------------ strategy lists
\* checkStrategyChanges over several lists in a row: the trader is
\* operational, holds one open trade of s1, and has s1 in any condition.
MaxLists == 3
LossRuns == {0, 2}

HeldStrategies(id) ==
    {NoStrategy} \cup
        {[Strategy(id, active, 16) EXCEPT !.isStopped = stopped, !.lossTradeRun = run] :
            active \in BOOLEAN, stopped \in BOOLEAN, run \in LossRuns}

\* The lists the hub may send: s1 trading, not trading, or missing.
StrategyLists ==
    {[id \in Strats |-> IF id = "s1" THEN s ELSE Strategy(id, TRUE, 16)] :
        s \in {NoStrategy, Strategy("s1", TRUE, 16), Strategy("s1", FALSE, 16)}}

known(strats, before) ==
    [id \in Strats |-> IF strats[id] # NoStrategy THEN strats[id] ELSE before[id]]

InitLists ==
    /\ env = Env(FUNDS_NONE)
    /\ hub = [list |-> <<>>, free |-> [w \in SeqToSet(WalletType) |-> 0],
              loans |-> [base |-> 0, quote |-> 0]]
    /\ heap = allocate([r \in Refs |-> NoTrade], <<PersistedTrade(LONG, TRUE)>>, <<>>).heap
    /\ tradesOpen = allocate([r \in Refs |-> NoTrade], <<PersistedTrade(LONG, TRUE)>>, <<>>).open
    /\ \E s \in HeldStrategies("s1") :
          strategies = [id \in Strats |-> IF id = "s1" THEN s ELSE Strategy(id, TRUE, 16)]
    /\ lastKnown = strategies
    /\ virtualBalances = NoBalances
    /\ InitServices
    /\ queue = <<>>
    /\ tradesClosing = {}
    /\ running = NoTask
    /\ pc = "idle"
    /\ isOperational = TRUE
    /\ prices = 0
    /\ anythingDone = FALSE
    /\ transactions = <<>>
    /\ acks = <<>>
    /\ lastCall = NoCall
    /\ skipped = ""
    /\ loads = <<>>
    /\ nSignals = 0
    /\ nOps = 0
    /\ nPayloads = 0
    /\ nLoaded = 1
    /\ balanceHistory = [tt \in TradingTypes |-> <<>>]
    /\ today = 0
    /\ nUpdates = 0
    /\ legal = NoLegal
    /\ rebalance = NoRebalance

\* onUserPayload of an operational trader.
StrategyList(newStrategies) ==
    /\ nPayloads < MaxLists
    /\ nPayloads' = nPayloads + 1
    /\ isOperational
    /\ strategies' = checkStrategyChanges(newStrategies, strategies)
    /\ lastKnown' = known(strategies', lastKnown)
    /\ UNCHANGED <<env, hub, prices, isOperational, heap, tradesOpen, tradesClosing, queue,
                   running, pc, anythingDone, transactions, acks, lastCall, skipped, nSignals,
                   nOps, loads, nLoaded, balanceHistory, today, nUpdates, legal, rebalance,
                   virtualBalances, services>>

NextLists ==
    \/ \E new \in StrategyLists : StrategyList(new)
    \/ \E p \in CheckPrices : onSellSignal("s1", EXIT, p)
    \/ TradeStart

SpecLists == InitLists /\ [][NextLists]_vars

listed == nPayloads' = nPayloads + 1
flagsOf(strategy) == <<strategy.isStopped, strategy.lossTradeRun>>

\* The flags of every listed strategy after the list, given what the trader
\* held of it before: kept, or reset where the trade flag has toggled.
keptFrom(before) ==
    \A id \in Strats :
        strategies'[id] # NoStrategy /\ before[id] # NoStrategy =>
            flagsOf(strategies'[id]) =
                IF strategies'[id].isActive = before[id].isActive
                THEN flagsOf(before[id]) ELSE <<FALSE, 0>>

\* The open trades stay through a list, and the signal of a strategy that
\* is not listed is rejected and changes nothing.
missingPaused ==
    /\ listed => tradesOpen' = tradesOpen /\ heap' = heap /\ tradesClosing' = tradesClosing
    /\ TradeStart /\ Head(queue).source = SIGNAL
           /\ strategies[Head(queue).signal.strategyId] = NoStrategy
         => /\ skipped' = "strategy isn't followed"
            /\ queue' = Tail(queue)
            /\ UNCHANGED <<heap, tradesOpen, tradesClosing, lastCall, running>>

\* C19 as stated: through any lists, the flags a strategy had when the
\* trader last held it are kept unless its trade flag has toggled since.
C19_FlagsKeptUnlessToggled ==
    /\ [][listed => keptFrom(lastKnown)]_vars
    /\ [][missingPaused]_vars

\* C19: a list keeps isStopped and lossTradeRun of every strategy that the
\* list before it held with the same trade flag, and resets both for a
\* strategy whose trade flag has toggled or that the list before it did not
\* hold; the open trades of a strategy missing from a list stay in the open
\* list and the automatic signals for them are rejected.
C19_FlagsKeptBetweenLists ==
    /\ [][listed => keptFrom(strategies)]_vars
    /\ [][listed =>
            \A id \in Strats :
                strategies'[id] # NoStrategy /\ strategies[id] = NoStrategy
                    => flagsOf(strategies'[id]) = <<FALSE, 0>>]_vars
    /\ [][missingPaused]_vars

\* Three lists have come, each with s1 trading, and s1 is still stopped
\* after two losses, which no list carries; its open trade is still there.
C19_Witness ==
    /\ nPayloads = MaxLists
    /\ strategies["s1"] # NoStrategy
    /\ strategies["s1"].isActive
    /\ flagsOf(strategies["s1"]) = <<TRUE, 2>>
    /\ tradesOpen = <<1>>


\* ------------------------------------------------ real and virtual trades
\* executeTradingTask for trades of either trading type while the hub
\* switches the strategy between the two: one trade of s1 is open, or its
\* entry has been sized and waits in the queue.
TypedTrades ==
    {[PersistedTrade(position, executed) EXCEPT !.tradingType = tradingType] :
        position \in {LONG, SHORT}, executed \in BOOLEAN, tradingType \in TradingTypes}

\* The lists the hub may send: s1 trading for real or virtually.
TypedLists ==
    {[id \in Strats |-> [Strategy(id, TRUE, 16) EXCEPT !.tradingType =
                            IF id = "s1" THEN tradingType ELSE REAL]] :
        tradingType \in TradingTypes}

enterTask(t) ==
    ExecTask(1, getTradingSequence(t, ENTER, SIGNAL), ENTER, SIGNAL,
             Signal(t.strategyId, ENTER, t.positionType,
                    IF t.positionType = LONG THEN t.priceBuy ELSE t.priceSell))

InitVirtual ==
    /\ env = Env(FUNDS_NONE)
    /\ hub = [list |-> <<>>, free |-> [w \in SeqToSet(WalletType) |-> 0],
              loans |-> [base |-> 0, quote |-> 0]]
    /\ \E t \in TypedTrades :
          /\ heap = allocate([r \in Refs |-> NoTrade], <<t>>, <<>>).heap
          /\ tradesOpen = allocate([r \in Refs |-> NoTrade], <<t>>, <<>>).open
          /\ strategies = [id \in Strats |->
                              [Strategy(id, TRUE, 16) EXCEPT !.tradingType =
                                  IF id = "s1" THEN t.tradingType ELSE REAL]]
          /\ queue = IF t.isExecuted THEN <<>> ELSE <<enterTask(t)>>
    /\ lastKnown = NoneKnown
    /\ virtualBalances = NoBalances
    /\ InitServices
    /\ tradesClosing = {}
    /\ running = NoTask
    /\ pc = "idle"
    /\ isOperational = TRUE
    /\ prices = 0
    /\ anythingDone = FALSE
    /\ transactions = <<>>
    /\ acks = <<>>
    /\ lastCall = NoCall
    /\ skipped = ""
    /\ loads = <<>>
    /\ nSignals = 0
    /\ nOps = 0
    /\ nPayloads = 0
    /\ nLoaded = 1
    /\ balanceHistory = [tt \in TradingTypes |-> <<>>]
    /\ today = 0
    /\ nUpdates = 0
    /\ legal = NoLegal
    /\ rebalance = NoRebalance

NextVirtual ==
    \/ \E new \in TypedLists : StrategyList(new)
    \/ \E p \in SignalPrices : onBuySignal("s1", EXIT, p)
    \/ \E p \in SignalPrices : onSellSignal("s1", EXIT, p)
    \/ \E p \in SignalPrices : onCloseTradedSignal("s1", NoPosition, p)
    \/ TradeStart
    \/ ExecStart
    \/ \E ok \in BOOLEAN : ExecBefore(ok)
    \/ \E ok \in BOOLEAN, p \in FillPrices : ExecMain(ok, p)
    \/ \E ok \in BOOLEAN : ExecAfter(ok)

SpecVirtual == InitVirtual /\ [][NextVirtual]_vars

\* The worker takes a step of the trade it is executing.
stepOf(tradingType) == execStep /\ heap[running.obj].tradingType = tradingType
stepTrade == heap[running.obj]
ledgerChange ==
    [w \in {MARGIN, SPOT} |->
        [a \in {"ETH", "BTC"} |-> virtualBalances'[w][a] - virtualBalances[w][a]]]
onlyAt(w, a, amount) == [NoBalances EXCEPT ![w][a] = amount]

\* What a step of a virtual trade adds to the virtual balances.
virtualChange ==
    IF pc = "before" THEN onlyAt(MARGIN, running.seq.borrowAsset, stepTrade.borrow)
    ELSE IF pc = "after" THEN onlyAt(MARGIN, running.seq.borrowAsset, 0 - stepTrade.borrow)
    ELSE IF running.seq.mainAction = BUY
    THEN [NoBalances EXCEPT ![stepTrade.wallet]["ETH"] = stepTrade.quantity,
                            ![stepTrade.wallet]["BTC"] =
                                0 - stepTrade.quantity * stepTrade.priceBuy]
    ELSE [NoBalances EXCEPT ![stepTrade.wallet]["ETH"] = 0 - stepTrade.quantity,
                            ![stepTrade.wallet]["BTC"] =
                                stepTrade.quantity * stepTrade.priceSell]

\* The request a step of a real trade sends to the exchange.
realRequest ==
    /\ lastCall'.obj = running.obj
    /\ lastCall'.step = pc
    /\ lastCall'.action = IF pc = "before" THEN BORROW
                          ELSE IF pc = "after" THEN REPAY ELSE running.seq.mainAction
    /\ lastCall'.quantity = IF pc = "main" THEN stepTrade.quantity ELSE stepTrade.borrow

Quiet ==
    /\ hub = [list |-> <<>>, free |-> [w \in SeqToSet(WalletType) |-> 0],
              loans |-> [base |-> 0, quote |-> 0]]
    /\ heap = [r \in Refs |-> NoTrade]
    /\ tradesOpen = <<>>
    /\ strategies = [id \in Strats |-> Strategy(id, TRUE, 16)]
    /\ lastKnown = NoneKnown
    /\ virtualBalances = NoBalances
    /\ queue = <<>>
    /\ tradesClosing = {}
    /\ running = NoTask
    /\ pc = "idle"
    /\ isOperational = TRUE
    /\ prices = 0
    /\ anythingDone = FALSE
    /\ transactions = <<>>
    /\ acks = <<>>
    /\ lastCall = NoCall
    /\ skipped = ""
    /\ loads = <<>>
    /\ nSignals = 0
    /\ nOps = 0
    /\ nPayloads = 1
    /\ nLoaded = 1
    /\ balanceHistory = [tt \in TradingTypes |-> <<>>]
    /\ today = 0
    /\ nUpdates = 0
    /\ legal = NoLegal
    /\ rebalance = NoRebalance

\* Everything but the services.
trading == <<env, hub, prices, isOperational, strategies, heap, tradesOpen, tradesClosing, queue,
             running, pc, anythingDone, transactions, acks, lastCall, skipped,
             nSignals, nOps, nPayloads, loads, nLoaded, virtualBalances,
             balanceHistory, today, nUpdates, legal, rebalance, lastKnown>>

\* enum MessageType, in the order of its declaration: the keys, which
\* NOTIFIER_LEVEL names in lower case, and the values, which messages carry.
MessageTypeKeys == <<"info", "success", "error", "warn">>
MessageTypeValues == <<"", "SUCCESS!", "ERROR!", "WARNING!">>
MaxNotes == 3

indexOf(seq, x) == CHOOSE i \in 1..Len(seq) : seq[i] = x

\* notifyAll: whether the message goes to the notifiers.
levelPasses(level, messageType) ==
    ~(indexOf(MessageTypeValues, messageType) < indexOf(MessageTypeKeys, level))

InitNotify ==
    /\ Quiet
    /\ dirty = {}
    /\ flushes = NoFlushes
    /\ exit = NoExit
    /\ InitApart
    /\ \E level \in SeqToSet(MessageTypeKeys) :
          env = [Env(FUNDS_NONE) EXCEPT !.NOTIFIER_LEVEL = level]
    /\ notified = NoNotes

\* What notifyAll leaves behind: the message asked for, and sent if it passes.
passed(notes, level, messageType) ==
    [asked |-> Append(notes.asked, messageType),
     sent |-> IF levelPasses(level, messageType)
              THEN Append(notes.sent, messageType) ELSE notes.sent]

notifyAll(messageType) ==
    /\ Len(notified.asked) < MaxNotes
    /\ notified' = passed(notified, env.NOTIFIER_LEVEL, messageType)
    /\ UNCHANGED <<trading, dirty, flushes, exit, apart>>

NextNotify == \E messageType \in SeqToSet(MessageTypeValues) : notifyAll(messageType)

SpecNotify == InitNotify /\ [][NextNotify]_vars

\* The place of a level and of a message in the order
\* info < success < warn < error.
severity(name) ==
    CASE name \in {"info", ""} -> 0
      [] name \in {"success", "SUCCESS!"} -> 1
      [] name \in {"warn", "WARNING!"} -> 2
      [] name \in {"error", "ERROR!"} -> 3

lastAsked == notified'.asked[Len(notified'.asked)]

\* C21: notifyAll gives a message to the notifiers exactly when its level is
\* at or above the configured minimum in the order
\* info < success < warn < error, and drops it otherwise.
C21_LevelFilter ==
    [][notified'.asked # notified.asked =>
          notified'.sent =
              IF severity(lastAsked) >= severity(env.NOTIFIER_LEVEL)
              THEN Append(notified.sent, lastAsked) ELSE notified.sent]_vars


\* ------------------------------------------------ saving and shutting down
\* saveState, flushDirty and shutDown beside the hub's callbacks: the
\* trader starts as in Init, saves now and then, and may be shut down at
\* any moment, by a failed write or by anything else that calls shutDown.
MaxFlushes == 2
StateTypes == {"tradesOpen", "strategies"}

alive == exit.stage # "exited"

\* saveState: mark the part dirty and call flushDirty, which waits first.
saveState(type) ==
    /\ flushes.wait + flushes.write < MaxFlushes
    /\ dirty' = dirty \cup {type}
    /\ flushes' = [flushes EXCEPT !.wait = @ + 1]
    /\ UNCHANGED <<trading, notified, exit, apart>>

\* flushDirty after its 100 ms: it takes what is dirty and writes it,
\* unless another flush got there first.
FlushWaited ==
    /\ flushes.wait > 0
    /\ IF dirty # {}
       THEN /\ dirty' = {}
            /\ flushes' = [wait |-> flushes.wait - 1, write |-> flushes.write + 1]
       ELSE /\ flushes' = [flushes EXCEPT !.wait = @ - 1]
            /\ UNCHANGED dirty
    /\ UNCHANGED <<trading, notified, exit, apart>>

\* shutDown up to the notification: the trader stops being operational.
shutDownBody ==
    /\ Len(notified.asked) < MaxNotes
    /\ isOperational' = FALSE
    /\ notified' = passed(notified, env.NOTIFIER_LEVEL, "ERROR!")
    /\ exit' = IF exit.stage = "none" THEN [exit EXCEPT !.stage = "notify"] ELSE exit
    /\ UNCHANGED <<env, hub, prices, strategies, heap, tradesOpen, tradesClosing, queue,
                   running, pc, anythingDone, transactions, acks, lastCall, skipped,
                   nSignals, nOps, nPayloads, loads, nLoaded, virtualBalances,
                   balanceHistory, today, nUpdates, legal, rebalance, lastKnown, apart>>

\* saveObjects answered the flush that saveState started; saveState shuts
\* the trader down when it failed.
FlushWritten(ok) ==
    /\ flushes.write > 0
    /\ flushes' = [flushes EXCEPT !.write = @ - 1]
    /\ UNCHANGED dirty
    /\ IF ok THEN UNCHANGED <<trading, notified, exit, apart>> ELSE shutDownBody

\* shutDown called for any other reason.
shutDown ==
    /\ exit.stage = "none"
    /\ shutDownBody
    /\ UNCHANGED <<dirty, flushes>>

\* shutDown once the notification has settled.  With something dirty it
\* calls flushDirty, which starts to wait, and then evaluates
\* finally(process.exit(1)): the argument of finally is the call itself.
ShutDownNotified ==
    /\ exit.stage = "notify"
    /\ IF dirty # {}
       THEN /\ flushes' = [flushes EXCEPT !.wait = @ + 1]
            /\ exit' = [stage |-> "exited", code |-> 1, flush |-> "wait"]
       ELSE /\ exit' = [stage |-> "exited", code |-> 1, flush |-> "none"]
            /\ UNCHANGED flushes
    /\ UNCHANGED <<trading, notified, dirty, apart>>

NextShutdown ==
    \/ alive /\ \E s \in Strats, e \in {ENTER, EXIT}, p \in SignalPrices : onBuySignal(s, e, p)
    \/ alive /\ \E s \in Strats, e \in {ENTER, EXIT}, p \in SignalPrices : onSellSignal(s, e, p)
    \/ alive /\ \E s \in Strats, p \in SignalPrices : onCloseTradedSignal(s, NoPosition, p)
    \/ alive /\ \E s \in Strats : onStopTradedSignal(s, NoPosition)
    \/ alive /\ \E new \in Payloads : onUserPayload(new)
    \/ alive /\ \E i \in 1..MaxPayloads : LoadTradeList(i, hub.list)
    \/ alive /\ \E i \in 1..MaxPayloads : LoadBalances(i, hub.free, hub.loans)
    \/ alive /\ \E type \in StateTypes : saveState(type)
    \/ alive /\ FlushWaited
    \/ alive /\ \E ok \in BOOLEAN : FlushWritten(ok)
    \/ alive /\ shutDown
    \/ ShutDownNotified

\* The trader starts with one trade it had saved, which the hub still lists,
\* or with nothing saved and two trades on the hub's list.
ShutdownWorlds ==
    {World(SELL_LARGEST, <<PersistedTrade(LONG, FALSE)>>,
           <<HubTrade("s1", LONG, 8, 2, FALSE)>>, 8, 0, 0),
     World(BORROW_MIN, <<>>,
           <<HubTrade("s1", LONG, 8, 2, FALSE), HubTrade("s2", SHORT, 8, 2, FALSE)>>, 8, 4, 4)}

InitShutdown ==
    /\ prices = 0
    /\ \E w \in ShutdownWorlds : InitWorld(w)
    /\ balanceHistory = [tt \in TradingTypes |-> <<>>]
    /\ today = 0
    /\ nUpdates = 0
    /\ legal = NoLegal
    /\ rebalance = NoRebalance
    /\ lastKnown = NoneKnown
    /\ virtualBalances = NoBalances
    /\ InitServices

SpecShutdown == InitShutdown /\ [][NextShutdown]_vars


\* A buy, sell, close or stop signal arrives.
signalled == nSignals' = nSignals + 1

\* C22: while the trader is not operational, before the first list of
\* strategies has been reconciled or after shutDown began, a buy, sell,
\* close or stop signal changes neither the open trades, nor the closing
\* set, nor the queue of trades.
C22_SignalsRejectedWhenNotOperational ==
    [][signalled /\ ~isOperational =>
          /\ tradesOpen' = tradesOpen
          /\ heap' = heap
          /\ tradesClosing' = tradesClosing
          /\ queue' = queue
          /\ running' = running]_vars

\* The trader was operational with an open trade, shutDown began, and every
\* signal since the start has left the queue empty and the trade as it was.
C22_Witness ==
    /\ ~isOperational
    /\ exit.stage = "notify"
    /\ nLoaded >= 1
    /\ nSignals = MaxSignals
    /\ tradesOpen # <<>>
    /\ \A r \in SeqToSet(tradesOpen) : ~heap[r].isStopped
    /\ queue = <<>>

\* C25: shutDown first makes the trader not operational, and the process
\* exits only when the flush that shutDown attempts for a dirty set has
\* finished: no exit while that flush is still waiting to write.
C25_ExitOnlyAfterFlush ==
    [][/\ (exit.stage = "none" /\ exit'.stage = "notify" => ~isOperational')
       /\ (exit.stage = "notify" /\ exit'.stage = "exited" =>
              /\ exit'.code # 0
              /\ (dirty # {} => exit'.flush = "done")
              /\ (dirty = {} => exit'.flush = "none"))]_vars


\* ------------------------------------------------------ the BNB for fees
\* checkBNBThreshold after a trade: amounts of BNB in hundredths, the
\* threshold from the configuration, the free BNB as the exchange reports it.
MaxChecks == 4
Thresholds == {-1, 0, 3, 4}
FreeBNB == 0..5

\* checkBNBThreshold reporting every balance at or below the threshold.
BNBStateAfterAlways(state, free, threshold) ==
    IF free <= threshold
    THEN IF free <= 0 THEN [state |-> "empty", notify |-> "ERROR!"]
         ELSE [state |-> IF 2 * free <= threshold THEN "low" ELSE "high", notify |-> "WARNING!"]
    ELSE [state |-> "ok", notify |-> "none"]

\* The state of the wallet after a check that loaded this free balance, and
\* the type of the message to send, "none" for no message.
BNBStateAfter(state, free, threshold) ==
    IF free <= threshold
    THEN IF \/ state = "ok"
            \/ (state = "high" /\ 2 * free <= threshold)
            \/ (state = "low" /\ free <= 0)
         THEN IF free <= 0 THEN [state |-> "empty", notify |-> "ERROR!"]
              ELSE [state |-> IF 2 * free <= threshold THEN "low" ELSE "high",
                    notify |-> "WARNING!"]
         ELSE [state |-> state, notify |-> "none"]
    ELSE [state |-> "ok", notify |-> "none"]

checkBNBThreshold(wallet, free) ==
    /\ nOps < MaxChecks
    /\ nOps' = nOps + 1
    /\ IF env.BNB_FREE_THRESHOLD >= 0
       THEN LET after == BNBStateAfter(BNBState[wallet], free, env.BNB_FREE_THRESHOLD)
            IN  /\ BNBFree' = [BNBFree EXCEPT ![wallet] = free]
                /\ BNBState' = [BNBState EXCEPT ![wallet] = after.state]
                /\ notified' = IF after.notify = "none" THEN notified
                               ELSE passed(notified, env.NOTIFIER_LEVEL, after.notify)
       ELSE UNCHANGED <<BNBFree, BNBState, notified>>
    /\ UNCHANGED <<env, hub, prices, isOperational, strategies, heap, tradesOpen, tradesClosing,
                   queue, running, pc, anythingDone, transactions, acks, lastCall, skipped,
                   nSignals, nPayloads, loads, nLoaded, virtualBalances, balanceHistory,
                   today, nUpdates, legal, rebalance, lastKnown, dirty, flushes, exit, gateway>>

InitFees ==
    /\ Quiet
    /\ \E threshold \in Thresholds :
          env = [Env(FUNDS_NONE) EXCEPT !.BNB_FREE_THRESHOLD = threshold]
    /\ InitServices

NextFees == \E wallet \in {SPOT, MARGIN}, free \in FreeBNB : checkBNBThreshold(wallet, free)

SpecFees == InitFees /\ [][NextFees]_vars

\* How low a state is.
lowness(state) ==
    CASE state = "ok" -> 0 [] state = "high" -> 1 [] state = "low" -> 2 [] state = "empty" -> 3

\* A message was handed to notifyAll.
reported == notified'.asked # notified.asked

\* The hysteresis of a wallet: a message is sent exactly when the wallet
\* enters a lower state, and the state only gets lower until it is ok again.
hysteresis(w) ==
    /\ BNBState'[w] \in {"ok", "high", "low", "empty"}
    /\ (BNBState'[w] # BNBState[w] /\ BNBState'[w] # "ok" =>
           /\ lowness(BNBState'[w]) > lowness(BNBState[w])
           /\ reported)
    /\ (reported /\ (\A o \in {SPOT, MARGIN} \ {w} : BNBState'[o] = BNBState[o]) =>
           lowness(BNBState'[w]) > lowness(BNBState[w]))
    /\ (BNBState'[w] # "ok" => BNBFree'[w] <= env.BNB_FREE_THRESHOLD)
    /\ (BNBState'[w] # BNBState[w] /\ BNBState'[w] = "high" =>
           2 * BNBFree'[w] > env.BNB_FREE_THRESHOLD)
    /\ (BNBState'[w] # BNBState[w] /\ BNBState'[w] = "low" =>
           2 * BNBFree'[w] <= env.BNB_FREE_THRESHOLD /\ BNBFree'[w] > 0)
    /\ (BNBState'[w] # BNBState[w] /\ BNBState'[w] = "empty" => BNBFree'[w] <= 0)

\* C23 as stated: hysteresis, and a wallet whose check loaded a free balance
\* at or above the threshold is ok.
C23_OkAtThreshold ==
    [][nOps' = nOps + 1 /\ env.BNB_FREE_THRESHOLD >= 0 =>
          \A w \in {SPOT, MARGIN} :
              /\ hysteresis(w)
              /\ (BNBFree'[w] >= env.BNB_FREE_THRESHOLD => BNBState'[w] = "ok")]_vars

\* C23: hysteresis, and a wallet whose check loaded a free balance above
\* the threshold is ok.
C23_OkAboveThreshold ==
    [][nOps' = nOps + 1 /\ env.BNB_FREE_THRESHOLD >= 0 =>
          \A w \in {SPOT, MARGIN} :
              /\ hysteresis(w)
              /\ (BNBFree'[w] > env.BNB_FREE_THRESHOLD => BNBState'[w] = "ok")]_vars

\* A wallet went through high, low and empty with one message each, and a
\* fourth check between them sent nothing.
C23_Witness ==
    /\ nOps = MaxChecks
    /\ BNBState[SPOT] = "empty"
    /\ notified.asked = <<"WARNING!", "WARNING!", "ERROR!">>
    /\ BNBState[MARGIN] = "ok"


\* --------------------------------------------------- the exchange gateway
\* The balance cache of the gateway beside its mutating calls.  Time in
\* ticks of the clock; a cached balance is "cached", none is "none".
MaxNow == 4
MaxCalls == 2
BALANCE_SYNC_DELAY == 1
CacheLife == 3
MutatingCalls ==
    {[fn |-> "createMarketOrder", wallet |-> SPOT],
     [fn |-> "createMarketOrder", wallet |-> MARGIN],
     [fn |-> "marginBorrow", wallet |-> MARGIN],
     [fn |-> "marginRepay", wallet |-> MARGIN]}

gatewayOnly ==
    UNCHANGED <<trading, notified, dirty, flushes, exit, BNBState, BNBFree>>

Tick ==
    /\ gateway.now < MaxNow
    /\ gateway' = [gateway EXCEPT !.now = @ + 1]
    /\ gatewayOnly

timeSinceLastChange(g, type) == g.now - g.lastChangeTimes[type]

\* balanceChanged: stamp the wallet and drop its cached balances.
balanceChanged(g, type) ==
    [g EXCEPT !.lastChangeTimes[type] = g.now,
              !.balances[type] = "none",
              !.balanceTimestamps[type] = 0]

\* fetchBalance up to its wait: cached balances of less than a day are
\* returned, older ones are cleared.
fetchBalance(type) ==
    /\ gateway.balances[type] = "cached"
    /\ ~(gateway.now - gateway.balanceTimestamps[type] < CacheLife)
    /\ gateway' = [gateway EXCEPT !.balances[type] = "none", !.balanceTimestamps[type] = 0]
    /\ gatewayOnly

\* fetchBalance after its wait: nothing cached, so it asks the exchange.
FetchRequest(type) ==
    /\ gateway.balances[type] = "none"
    /\ ~(timeSinceLastChange(gateway, type) < BALANCE_SYNC_DELAY)
    /\ type \notin gateway.fetching
    /\ gateway' = [gateway EXCEPT !.fetching = @ \cup {type}]
    /\ gatewayOnly

\* The exchange answers: the balances are cached for next time.
FetchResponse(type, ok) ==
    /\ type \in gateway.fetching
    /\ gateway' = IF ok
                  THEN [gateway EXCEPT !.fetching = @ \ {type},
                                       !.balances[type] = "cached",
                                       !.balanceTimestamps[type] = gateway.now]
                  ELSE [gateway EXCEPT !.fetching = @ \ {type}]
    /\ gatewayOnly

\* createMarketOrder, marginBorrow, marginRepay up to their request.
CallStart(call) ==
    /\ Len(gateway.calls) < MaxCalls
    /\ gateway' = [balanceChanged(gateway, call.wallet) EXCEPT !.calls = Append(@, call)]
    /\ gatewayOnly

\* The exchange answers the request: then() runs when it succeeded.
CallEnd(i, ok) ==
    /\ i \in 1..Len(gateway.calls)
    /\ LET call == gateway.calls[i]
           rest == SubSeq(gateway.calls, 1, i - 1) \o SubSeq(gateway.calls, i + 1, Len(gateway.calls))
       IN  gateway' = IF ok
                      THEN [balanceChanged(gateway, call.wallet) EXCEPT !.calls = rest]
                      ELSE [gateway EXCEPT !.calls = rest]
    /\ gatewayOnly

InitGateway ==
    /\ Quiet
    /\ env = Env(FUNDS_NONE)
    /\ InitServices

NextGateway ==
    \/ Tick
    \/ \E type \in {SPOT, MARGIN} : fetchBalance(type)
    \/ \E type \in {SPOT, MARGIN} : FetchRequest(type)
    \/ \E type \in {SPOT, MARGIN}, ok \in BOOLEAN : FetchResponse(type, ok)
    \/ \E call \in MutatingCalls : CallStart(call)
    \/ \E i \in 1..MaxCalls, ok \in BOOLEAN : CallEnd(i, ok)

SpecGateway == InitGateway /\ [][NextGateway]_vars

\* The wallet has just been invalidated and stamped.
invalidated(g, type) ==
    /\ g.balances[type] = "none"
    /\ g.lastChangeTimes[type] = g.now

\* C24: when a mutating call starts and when it ends, however it ends, the
\* cached balance of its wallet is invalid and stamped with the time.
C24_InvalidatedAtStartAndEnd ==
    [][/\ (Len(gateway'.calls) = Len(gateway.calls) + 1 =>
              invalidated(gateway', gateway'.calls[Len(gateway'.calls)].wallet))
       /\ (Len(gateway'.calls) = Len(gateway.calls) - 1 =>
              \E i \in 1..Len(gateway.calls) :
                  /\ gateway'.calls = SubSeq(gateway.calls, 1, i - 1)
                                      \o SubSeq(gateway.calls, i + 1, Len(gateway.calls))
                  /\ invalidated(gateway', gateway.calls[i].wallet))]_vars


\* ------------------------------------------------------------ starting up
\* The trader starts with the trades it had saved and the first list of
\* strategies has arrived: its loadPreviousOpenTrades is waiting for the
\* hub's list of open trades.  Another list of strategies may arrive
\* before that one has finished.
MaxLoads == 2

SavedTrade(strategyId, positionType, isExecuted, isStopped) ==
    [PersistedTrade(positionType, isExecuted) EXCEPT !.strategyId = strategyId,
                                                     !.isStopped = isStopped]

SavedTrades ==
    {SavedTrade(k[1], k[2], e, st) :
        k \in {<<"s1", LONG>>, <<"s1", SHORT>>, <<"s2", LONG>>}, e \in BOOLEAN, st \in BOOLEAN}

\* The trader holds at most one open trade of a strategy, symbol and position.
SavedLists ==
    {<<>>} \cup {<<a>> : a \in SavedTrades}
           \cup {p \in {<<a, b>> : a \in SavedTrades, b \in SavedTrades} : ~sameTrade(p[1], p[2])}

ListedTrades ==
    {HubTrade(k[1], k[2], 8, 2, st) :
        k \in {<<"s1", LONG>>, <<"s1", SHORT>>, <<"s2", LONG>>}, st \in BOOLEAN}

ListedLists ==
    {<<>>} \cup {<<a>> : a \in ListedTrades} \cup {<<a, b>> : a \in ListedTrades, b \in ListedTrades}

\* What InitWorld makes of the world, with the first list of strategies in.
InitLoading(w, first) ==
    /\ env = w.env
    /\ hub = [list |-> w.list, free |-> w.free, loans |-> w.loans]
    /\ strategies = w.db.strategies
    /\ heap = allocate([r \in Refs |-> NoTrade], w.db.trades, <<>>).heap
    /\ tradesOpen = allocate([r \in Refs |-> NoTrade], w.db.trades, <<>>).open
    /\ isOperational = FALSE
    /\ tradesClosing = {}
    /\ queue = <<>>
    /\ running = NoTask
    /\ pc = "idle"
    /\ anythingDone = FALSE
    /\ transactions = <<>>
    /\ acks = <<>>
    /\ lastCall = NoCall
    /\ skipped = ""
    /\ loads = <<[strategies |-> first, stage |-> "list", trades |-> <<>>]>>
    /\ nSignals = 0
    /\ nOps = 0
    /\ nPayloads = 0
    /\ nLoaded = 0

InitStartup ==
    /\ prices = 0
    /\ \E saved \in SavedLists, list \in ListedLists, first \in Payloads :
          InitLoading(World(BORROW_MIN, saved, list, 8, 4, 4), first)
    /\ balanceHistory = [tt \in TradingTypes |-> <<>>]
    /\ today = 0
    /\ nUpdates = 0
    /\ legal = NoLegal
    /\ rebalance = NoRebalance
    /\ lastKnown = NoneKnown
    /\ virtualBalances = NoBalances
    /\ InitServices

NextStartup ==
    \/ \E new \in Payloads : onUserPayload(new)
    \/ \E i \in 1..MaxLoads : LoadTradeList(i, hub.list)
    \/ \E i \in 1..MaxLoads : LoadBalances(i, hub.free, hub.loans)

SpecStartup == InitStartup /\ [][NextStartup]_vars


\* The hub lists no trade like this one; the hub lists one like it as stopped.
absentFromHub(t) == \A i \in 1..Len(hub.list) : ~sameTrade(t, hub.list[i])
stoppedOnHub(t) == \E i \in 1..Len(hub.list) : sameTrade(t, hub.list[i]) /\ hub.list[i].isStopped

\* The first loadPreviousOpenTrades returns to a trader that had saved trades.
firstLoadOfSaved == nLoaded = 0 /\ nLoaded' = 1 /\ tradesOpen # <<>>

\* C26: the first load of a trader with saved trades leaves exactly the
\* saved trades but those that the hub does not list and that never
\* executed, adds no trade of the hub, and stops the trades the hub lists
\* as stopped.
C26_SavedTradesReconciled ==
    [][firstLoadOfSaved =>
          /\ tradesOpen' = FilterSeq(tradesOpen,
                 {r \in SeqToSet(tradesOpen) : ~(absentFromHub(heap[r]) /\ ~heap[r].isExecuted)})
          /\ \A r \in SeqToSet(tradesOpen') :
                /\ sameTrade(heap'[r], heap[r])
                /\ heap'[r].quantity = heap[r].quantity
                /\ heap'[r].cost = heap[r].cost
                /\ heap'[r].isStopped = (heap[r].isStopped \/ stoppedOnHub(heap[r]))
          /\ \A i \in 1..Len(hub.list) :
                (\A r \in SeqToSet(tradesOpen) : ~sameTrade(heap[r], hub.list[i])) =>
                    \A r \in SeqToSet(tradesOpen') : ~sameTrade(heap'[r], hub.list[i])]_vars

\* Of two saved trades one was discarded, the other is stopped as the hub
\* lists it, and the hub lists a trade that the trader did not take.
C26_Witness ==
    /\ nLoaded = 1
    /\ Len(tradesOpen) = 1
    /\ \E r \in Refs \ SeqToSet(tradesOpen) :
          heap[r] # NoTrade /\ ~heap[r].isExecuted /\ absentFromHub(heap[r])
    /\ heap[tradesOpen[1]].isStopped /\ stoppedOnHub(heap[tradesOpen[1]])
    /\ \E i \in 1..Len(hub.list) : ~sameTrade(heap[tradesOpen[1]], hub.list[i])

\* A step of a call with a list of strategies: the call arrives, or its
\* loadPreviousOpenTrades goes on.
listStep == nPayloads' # nPayloads \/ loads' # loads

\* C27: once the trader is operational no call with a list of strategies
\* replaces the list of open trades or discards a trade from it, also not a
\* call that started while an earlier one was still loading.
C27_NoReloadOnceOperational ==
    [][isOperational /\ listStep => tradesOpen' = tradesOpen]_vars


\* ------------------------------------------------- funds of a new entry
\* A new entry is being sized beside trades that are open, some of them
\* not yet executed, some of them closing: what loadWalletBalances makes of
\* the wallets and what calculateTradeSize makes of the trade.
FundsFrees == {0, 7, 16}

FundsTrade(strategyId, positionType, isExecuted, wallet, tradingType) ==
    [SavedTrade(strategyId, positionType, isExecuted, FALSE) EXCEPT !.wallet = wallet,
                                                                    !.tradingType = tradingType]

FundsLists ==
    {a \o b \o c :
        a \in {<<>>} \cup {<<FundsTrade("s1", LONG, e, w, tt)>> :
                                e \in BOOLEAN, w \in {MARGIN, SPOT}, tt \in TradingTypes},
        b \in {<<>>} \cup {<<FundsTrade("s2", LONG, e, MARGIN, REAL)>> : e \in BOOLEAN},
        c \in {<<>>} \cup {<<FundsTrade("s1", SHORT, e, MARGIN, REAL)>> : e \in BOOLEAN}}

\* The exits of the closing trades wait in the queue behind the entry.
RECURSIVE closingQueue(_, _, _)
closingQueue(h, open, closing) ==
    IF open = <<>> THEN <<>>
    ELSE IF Head(open) \in closing
    THEN scheduleQueue(closingQueue(h, Tail(open), closing), h, Head(open), EXIT, SIGNAL,
                       Signal(h[Head(open)].strategyId, EXIT, h[Head(open)].positionType, 2))
    ELSE closingQueue(h, Tail(open), closing)

InitFunds ==
    /\ \E funds \in SizeFunds, primary \in {MARGIN, SPOT} :
          env = [Env(funds) EXCEPT !.PRIMARY_WALLET = primary]
    /\ hub \in [list : {<<>>}, free : [{MARGIN, SPOT} -> FundsFrees],
                loans : {[base |-> 0, quote |-> 0]}]
    /\ \E trades \in FundsLists :
          /\ heap = allocate([r \in Refs |-> NoTrade], trades, <<>>).heap
          /\ tradesOpen = allocate([r \in Refs |-> NoTrade], trades, <<>>).open
    /\ tradesClosing \in SUBSET SeqToSet(tradesOpen)
    /\ queue = closingQueue(heap, tradesOpen, tradesClosing)
    /\ \E a \in SizeAmounts, s \in Strats, position \in {LONG, SHORT}, p \in SizePrices :
          /\ getTradeOpen(heap, tradesOpen, Signal(s, ENTER, position, p)) = 0
          /\ strategies = [id \in Strats |-> Strategy(id, TRUE, a)]
          /\ running = [kind |-> "trade", signal |-> Signal(s, ENTER, position, p),
                        source |-> SIGNAL, strategy |-> Strategy(s, TRUE, a)]
    /\ pc = "sizing"
    /\ isOperational = TRUE
    /\ prices = 0
    /\ anythingDone = FALSE
    /\ transactions = <<>>
    /\ acks = <<>>
    /\ lastCall = NoCall
    /\ skipped = ""
    /\ loads = <<>>
    /\ nSignals = 1
    /\ nOps = 0
    /\ nPayloads = 1
    /\ nLoaded = 1
    /\ balanceHistory = [tt \in TradingTypes |-> <<>>]
    /\ today = 0
    /\ nUpdates = 0
    /\ legal = NoLegal
    /\ rebalance = NoRebalance
    /\ lastKnown = NoneKnown
    /\ virtualBalances = NoBalances
    /\ InitServices

NextFunds == \E ok \in BOOLEAN : TradeSize(ok, hub.free)

SpecFunds == InitFunds /\ [][NextFunds]_vars


\* The wallets of the entry that is being sized, and what they would be if
\* the trade were not closing, or were not there at all.
walletsNow ==
    loadWalletBalances(running.strategy.tradingType, heap, tradesOpen, tradesClosing, hub.free)
walletsNotClosing(r) ==
    loadWalletBalances(running.strategy.tradingType, heap, tradesOpen, tradesClosing \ {r},
                       hub.free)
walletsWithout(r) ==
    loadWalletBalances(running.strategy.tradingType, heap,
                       FilterSeq(tradesOpen, SeqToSet(tradesOpen) \ {r}),
                       tradesClosing \ {r}, hub.free)

\* The trade is held in the wallets that the entry is sized from.
sameWallets(r) == heap[r] # NoTrade /\ heap[r].tradingType = running.strategy.tradingType
otherWallets(r) == heap[r] # NoTrade /\ heap[r].tradingType # running.strategy.tradingType

closingLong(r) ==
    r \in tradesClosing /\ heap[r].positionType = LONG /\ heap[r].isExecuted
pendingLong(r) ==
    r \in SeqToSet(tradesOpen) /\ heap[r].positionType = LONG /\ ~heap[r].isExecuted

releasedTo(wallets, r) ==
    /\ wallets[heap[r].wallet].free = walletsNotClosing(r)[heap[r].wallet].free + heap[r].cost
    /\ wallets[heap[r].wallet].locked = walletsNotClosing(r)[heap[r].wallet].locked - heap[r].cost
    /\ r \notin SeqToSet(wallets[heap[r].wallet].trades)
    /\ r \in SeqToSet(walletsNotClosing(r)[heap[r].wallet].trades)

takenFrom(wallets, r) ==
    wallets[heap[r].wallet].free = walletsWithout(r)[heap[r].wallet].free - heap[r].cost

\* C28: when an entry is sized, the cost of an executed long trade that is
\* closing is added to the free balance of its wallet and is neither locked
\* nor a candidate for rebalancing, and the cost of a long trade that has
\* not executed is taken from the free balance of its wallet; the real
\* wallets hold the real trades and the virtual wallets the virtual ones.
C28_ClosingReleasedPendingTaken ==
    [][sized =>
          \A r \in Refs :
              /\ sameWallets(r) /\ closingLong(r) => releasedTo(walletsNow, r)
              /\ sameWallets(r) /\ pendingLong(r) => takenFrom(walletsNow, r)
              /\ otherWallets(r) => walletsNow = walletsWithout(r)]_vars


\* A long entry was sized and its trade created: the free balance of the
\* wallet it was put on, what the rebalancing for it took from the cost of
\* the open trades, and the cost of the smallest legal quantity at the
\* price of the signal.
longCreated == sized /\ created /\ running.signal.positionType = LONG
freeOf(t) == walletsNow[t.wallet].free
released == SumSet(costOf(heap), SeqToSet(tradesOpen)) - SumSet(costOf(heap'), SeqToSet(tradesOpen))
leastCost ==
    running.signal.price * getLegalQty(RInt(0), markets[running.signal.symbol],
                                       running.signal.price)

\* C29 as stated: the trade created for a long entry is legal and its cost
\* is at most the free balance of its wallet, plus what the rebalancing
\* scheduled for it releases, plus what it borrows.
C29_CostWithinFunds ==
    [][longCreated =>
          /\ legalTrade(newTrade, running.signal.price)
          /\ newTrade.cost <= freeOf(newTrade) + released + newTrade.borrow]_vars

\* C29: the trade created for a long entry is legal, and its cost is at
\* most the free balance of its wallet, if any, plus what the rebalancing
\* scheduled for it releases, plus what it borrows, unless that is less
\* than the cost of the smallest legal quantity, which the trade then has.
C29_CostWithinFundsOrLeast ==
    [][longCreated =>
          /\ legalTrade(newTrade, running.signal.price)
          /\ \/ newTrade.cost <= Max(freeOf(newTrade), 0) + released + newTrade.borrow
             \/ newTrade.cost = leastCost]_vars


\* With 7 free and no funding model the entry at price 4 was cut to 7,
\* which is less than two lots: it was made at the smallest legal
\* quantity, which costs 8.
C29_Witness ==
    /\ pc = "idle" /\ skipped = ""
    /\ env.TRADE_LONG_FUNDS = FUNDS_NONE
    /\ Len(tradesOpen) = 1
    /\ heap[tradesOpen[1]].positionType = LONG
    /\ heap[tradesOpen[1]].priceBuy = 4
    /\ heap[tradesOpen[1]].cost = 8
    /\ heap[tradesOpen[1]].borrow = 0
    /\ hub.free[heap[tradesOpen[1]].wallet] = 7
    /\ strategies["s1"].tradeAmount = 16


\* No wallet holds the cost of the legal quantity of the strategy's amount.
insufficient == \A w \in DOMAIN walletsNow : raisedCost > walletsNow[w].free

\* C30: a long entry on a market with margin trading is put on the margin
\* wallet with borrow = cost under borrow all, whichever wallet is primary,
\* and under borrow min, when no wallet holds the cost, on the margin wallet
\* with borrow = max(0, cost - free of the margin wallet).
C30_BorrowOnMargin ==
    [][longCreated /\ markets[running.signal.symbol].margin =>
          /\ env.TRADE_LONG_FUNDS = BORROW_ALL =>
                newTrade.wallet = MARGIN /\ newTrade.borrow = newTrade.cost
          /\ env.TRADE_LONG_FUNDS = BORROW_MIN /\ insufficient =>
                /\ newTrade.wallet = MARGIN
                /\ newTrade.borrow = Max(0, newTrade.cost - walletsNow[MARGIN].free)]_vars


\* ------------------------------------------------------ sell all
\* An entry sized under Sell All while up to three long trades of other
\* strategies hold funds of the margin wallet.
SellStrats == {"s1", "s2", "s3", "s4"}
SellQtys == {4, 6, 10, 22}
SellFrees == {0, 4, 16, 30}

SellTrade(strategyId, quantity, isStopped) ==
    [SavedTrade(strategyId, LONG, TRUE, isStopped) EXCEPT !.quantity = quantity,
                                                          !.cost = 2 * quantity]

SellLists ==
    {<<SellTrade("s1", a, st), SellTrade("s2", b, FALSE), SellTrade("s3", c, FALSE)>> :
        a \in SellQtys, b \in SellQtys, c \in SellQtys, st \in BOOLEAN}

InitSellAll ==
    /\ env = Env(SELL_ALL)
    /\ hub \in [list : {<<>>}, free : {[w \in {MARGIN, SPOT} |-> IF w = MARGIN THEN f ELSE g] :
                            f \in SellFrees, g \in {0, 30}},
                loans : {[base |-> 0, quote |-> 0]}]
    /\ \E trades \in SellLists :
          /\ heap = allocate([r \in Refs |-> NoTrade], trades, <<>>).heap
          /\ tradesOpen = allocate([r \in Refs |-> NoTrade], trades, <<>>).open
    /\ tradesClosing = {}
    /\ queue = <<>>
    /\ \E a \in {16, 40} :
          /\ strategies = [id \in SellStrats |-> Strategy(id, TRUE, a)]
          /\ running = [kind |-> "trade", signal |-> Signal("s4", ENTER, LONG, 2),
                        source |-> SIGNAL, strategy |-> Strategy("s4", TRUE, a)]
    /\ pc = "sizing"
    /\ isOperational = TRUE
    /\ prices = 0
    /\ anythingDone = FALSE
    /\ transactions = <<>>
    /\ acks = <<>>
    /\ lastCall = NoCall
    /\ skipped = ""
    /\ loads = <<>>
    /\ nSignals = 1
    /\ nOps = 0
    /\ nPayloads = 1
    /\ nLoaded = 1
    /\ balanceHistory = [tt \in TradingTypes |-> <<>>]
    /\ today = 0
    /\ nUpdates = 0
    /\ legal = NoLegal
    /\ rebalance = NoRebalance
    /\ lastKnown = NoneKnown
    /\ virtualBalances = NoBalances
    /\ InitServices

NextSellAll == \E ok \in BOOLEAN : TradeSize(ok, hub.free)

SpecSellAll == InitSellAll /\ [][NextSellAll]_vars

\* A long entry is sized under Sell All.
sellAllSized == sized /\ running.signal.positionType = LONG /\ env.TRADE_LONG_FUNDS = SELL_ALL

\* The trades of a wallet that may be rebalanced, and the largest of them.
candidates(w) ==
    {r \in SeqToSet(walletsNow[w].trades) :
        /\ ~heap[r].isStopped
        /\ ~(heap[r].isHodl /\ ~env.IS_FUNDS_NO_LOSS)
        /\ heap[r].quantity >= 2 * markets[heap[r].symbol].amountMin
        /\ RGe(RInt(heap[r].cost), Rat(2 * getMinCost(TheMarket)[1], getMinCost(TheMarket)[2]))
        /\ env.IS_FUNDS_NO_LOSS => ~PnLIsLoss(heap[r].priceBuy, prices)}
largestCost(w) == CHOOSE c \in {heap[r].cost : r \in candidates(w)} :
                      \A r \in candidates(w) : heap[r].cost <= c
loopRuns(w) == candidates(w) # {} /\ walletsNow[w].free < largestCost(w)
afterLoop(w) == rebalancePotential(heap, walletsNow[w], SELL_ALL)
keptBy(w) == SeqToSet(afterLoop(w).trades)
sameRat(a, b) == a[1] * b[2] = b[1] * a[2]

\* The open trades the sizing has reduced.
reduced == {r \in SeqToSet(tradesOpen) : heap'[r].cost < heap[r].cost}

\* What the loop of Sell All ends with for wallet w.
loopEnds(w) ==
    /\ keptBy(w) \subseteq candidates(w)
    /\ \E r \in keptBy(w) : heap[r].cost = largestCost(w)
    /\ sameRat(afterLoop(w).potential,
               Rat(walletsNow[w].free + SumSet(costOf(heap), keptBy(w)),
                   Cardinality(keptBy(w)) + 1))
    /\ \A r \in keptBy(w) : RGe(RInt(heap[r].cost), afterLoop(w).potential)

\* C31 as stated: under Sell All the loop ends for every set of candidate
\* trades, keeps a largest trade and ends with the potential equal to the free
\* balance plus the costs of the kept trades, divided by their number plus
\* one, no kept trade costing less; and where the sizing rebalances the
\* wallet, every kept trade that costs more than the potential is reduced.
C31_SellAllRebalancesEveryKept ==
    [][sellAllSized =>
          \A w \in DOMAIN walletsNow :
             loopRuns(w) =>
                /\ loopEnds(w)
                /\ (\E r \in reduced : heap[r].wallet = w) =>
                      \A r \in keptBy(w) :
                         RGt(RInt(heap[r].cost), afterLoop(w).potential) => r \in reduced]_vars

\* C31: under Sell All the loop ends for every set of candidate trades; it
\* keeps a largest trade; the potential it ends with is the free balance plus
\* the costs of the kept trades, divided by their number plus one; no kept
\* trade costs less than the potential; and the sizing reduces kept trades
\* only.
C31_SellAllAverage ==
    [][sellAllSized =>
          /\ \A w \in DOMAIN walletsNow : loopRuns(w) => loopEnds(w)
          /\ \A r \in reduced : loopRuns(heap[r].wallet) /\ r \in keptBy(heap[r].wallet)]_vars

\* The smallest of three trades was dropped, the largest was reduced and the
\* one between was kept as it was.
C31_Witness ==
    /\ env.TRADE_LONG_FUNDS = SELL_ALL /\ pc = "idle" /\ skipped = ""
    /\ hub.free[MARGIN] = 0 /\ hub.free[SPOT] = 0
    /\ Len(tradesOpen) = 4
    /\ heap[tradesOpen[1]].cost = 8 /\ heap[tradesOpen[2]].cost = 12
    /\ heap[tradesOpen[3]].cost = 12 /\ heap[tradesOpen[3]].quantity = 6
    /\ heap[tradesOpen[4]].strategyId = "s4" /\ heap[tradesOpen[4]].cost = 8
    /\ \E i \in 1..Len(queue) : queue[i].source = REBALANCE /\ heap[queue[i].obj].cost = 8


\* ------------------------------------------------------ failed tasks
\* The step is the failure of the execute task of trade r, of the given
\* entry type, asked for by the given source.
taskFails(r, entryType, source) ==
    /\ execStep /\ isExec(running, r, entryType) /\ running.source = source
    /\ pc' = "idle" /\ lastCall'.obj = r /\ ~lastCall'.ok

\* C32: when the execute task of the entry of a signal fails before any of
\* its steps has succeeded, the trade leaves the open-trade list and the hub
\* is sent no ack: none in the failing step, and none for the trade before.
C32_FailedEntryRemoved ==
    [][\A r \in Refs :
          taskFails(r, ENTER, SIGNAL) /\ ~anythingDone
            => /\ r \notin SeqToSet(tradesOpen')
               /\ acks' = acks
               /\ \A i \in 1..Len(acks) : acks[i].id # heap[r].id]_vars

\* The order of a long entry on spot funds, or the loan of an entry, was the
\* first request of the task and was refused; the trade is gone.
C32_Witness ==
    /\ running = NoTask /\ lastCall # NoCall
    /\ lastCall.entryType = ENTER /\ lastCall.source = SIGNAL /\ ~lastCall.ok
    /\ \/ lastCall.step = "before"
       \/ lastCall.step = "main" /\ heap[lastCall.obj].borrow = 0
    /\ lastCall.obj \notin SeqToSet(tradesOpen)
    /\ acks = <<>>


\* C33: when an execute task fails after one of its steps has succeeded, the
\* trade is stopped and stays in the open-trade list.
C33_PartialFailureStopsAndKeeps ==
    [][\A r \in SeqToSet(tradesOpen) :
          \A entryType \in {ENTER, EXIT}, source \in {SIGNAL, MANUAL, REBALANCE} :
             taskFails(r, entryType, source) /\ anythingDone
               => heap'[r].isStopped /\ r \in SeqToSet(tradesOpen')]_vars


\* ------------------------------------------------------ restoring a parent
\* Sizings reduce the one open long trade, once or twice, and the queue runs
\* the children they schedule: each sale is filled or refused.
RestoreQtys == {8, 12}
RestoreCosts == {RInt(4), RInt(8), RInt(10), RInt(12), RInt(16)}

InitRestore ==
    /\ env = Env(SELL_ALL)
    /\ hub = [list |-> <<>>, free |-> [w \in {MARGIN, SPOT} |-> 0],
              loans |-> [base |-> 0, quote |-> 0]]
    /\ \E q \in RestoreQtys :
          /\ heap = allocate([r \in Refs |-> NoTrade], <<SellTrade("s1", q, FALSE)>>, <<>>).heap
          /\ tradesOpen = allocate([r \in Refs |-> NoTrade], <<SellTrade("s1", q, FALSE)>>,
                                   <<>>).open
          /\ rebalance = [trade |-> 0, cost |-> RInt(0), free |-> 0, locked |-> 2 * q,
                          stamped |-> {}, calls |-> 0]
    /\ strategies = [id \in Strats |-> Strategy(id, TRUE, 16)]
    /\ tradesClosing = {}
    /\ queue = <<>>
    /\ running = NoTask
    /\ pc = "idle"
    /\ isOperational = TRUE
    /\ prices = 0
    /\ anythingDone = FALSE
    /\ transactions = <<>>
    /\ acks = <<>>
    /\ lastCall = NoCall
    /\ skipped = ""
    /\ loads = <<>>
    /\ nSignals = 1
    /\ nOps = 0
    /\ nPayloads = 1
    /\ nLoaded = 1
    /\ balanceHistory = [tt \in TradingTypes |-> <<>>]
    /\ today = 0
    /\ nUpdates = 0
    /\ legal = NoLegal
    /\ lastKnown = NoneKnown
    /\ virtualBalances = NoBalances
    /\ InitServices

NextRestore ==
    \/ running = NoTask /\ \E r \in Refs, cost \in RestoreCosts : Rebalance(r, cost)
    \/ ExecStart
    \/ \E ok \in BOOLEAN, p \in FillPrices : ExecMain(ok, p)

SpecRestore == InitRestore /\ [][NextRestore]_vars

\* The rebalance children of open trade p that wait for their sale.
kidsOf(p) == {c \in tradesClosing : c \notin SeqToSet(tradesOpen) /\ heap[c].id = heap[p].id}
kidsAfter(p) == {c \in tradesClosing' : c \notin SeqToSet(tradesOpen') /\ heap'[c].id = heap'[p].id}

\* The step moves to child c what it takes from parent p, or gives p back
\* what c holds, or leaves p's quantity and cost alone.
reduces(p, c) ==
    /\ heap[p].quantity = heap'[p].quantity + heap'[c].quantity
    /\ heap[p].cost = heap'[p].cost + heap'[c].cost
restores(p, c) ==
    /\ heap'[p].quantity = heap[p].quantity + heap[c].quantity
    /\ heap'[p].cost = heap[p].cost + heap[c].cost
keeps(p) == heap'[p].quantity = heap[p].quantity /\ heap'[p].cost = heap[p].cost

\* C34: a rebalance child that fails gives its parent back exactly the
\* quantity and cost its rebalance took, whatever other rebalances of the
\* parent overlap it: a rebalance moves to the child what it takes from the
\* parent; the child holds that while it waits; while it waits the parent's
\* quantity and cost change only by what other rebalances take and other
\* failed children give back; and the failure adds what the child holds.
C34_RestoreIsRoundTrip ==
    [][\A p \in SeqToSet(tradesOpen) :
          /\ \A c \in kidsAfter(p) \ kidsOf(p) : reduces(p, c)
          /\ \A c \in kidsOf(p) : taskFails(c, EXIT, REBALANCE) => restores(p, c)
          /\ \A c \in kidsOf(p) \cap kidsAfter(p) :
                /\ heap'[c].quantity = heap[c].quantity /\ heap'[c].cost = heap[c].cost
                /\ \/ keeps(p)
                   \/ \E d \in kidsAfter(p) \ kidsOf(p) : reduces(p, d)
                   \/ \E d \in kidsOf(p) \ {c} : taskFails(d, EXIT, REBALANCE) /\ restores(p, d)]_vars


\* The sale of child d of parent p is filled: p keeps its quantity and is
\* valued at the price of the fill.
revalues(p, d) ==
    /\ isExec(running, d, EXIT) /\ pc' = "idle" /\ lastCall'.obj = d /\ lastCall'.ok
    /\ heap'[p].quantity = heap[p].quantity
    /\ heap'[p].cost = heap[p].quantity * heap'[d].priceSell

\* C34: a rebalance child that fails gives its parent back exactly the
\* quantity and cost its rebalance moved to it, whatever other rebalances of
\* the parent overlap it; while the child waits the parent's quantity changes
\* only by what other rebalances take and other failed children give back,
\* and its cost by that and by the fill of another child's sale, which
\* values the parent's remaining quantity at the fill price.
C34_RestoreAddsBack ==
    [][\A p \in SeqToSet(tradesOpen) :
          /\ \A c \in kidsAfter(p) \ kidsOf(p) : reduces(p, c)
          /\ \A c \in kidsOf(p) : taskFails(c, EXIT, REBALANCE) => restores(p, c)
          /\ \A c \in kidsOf(p) \cap kidsAfter(p) :
                /\ heap'[c].quantity = heap[c].quantity /\ heap'[c].cost = heap[c].cost
                /\ \/ keeps(p)
                   \/ \E d \in kidsAfter(p) \ kidsOf(p) : reduces(p, d)
                   \/ \E d \in kidsOf(p) \ {c} : taskFails(d, EXIT, REBALANCE) /\ restores(p, d)
                   \/ \E d \in kidsOf(p) \ {c} : revalues(p, d)]_vars

\* Two rebalances of the trade overlapped and both sales were refused: the
\* trade has the quantity and the cost it started with.
C34_Witness ==
    /\ rebalance.calls = 2 /\ heap[2] # NoTrade /\ heap[3] # NoTrade
    /\ running = NoTask /\ queue = <<>> /\ tradesClosing = {} /\ transactions = <<>>
    /\ lastCall # NoCall /\ lastCall.source = REBALANCE /\ ~lastCall.ok
    /\ heap[tradesOpen[1]].quantity = 12 /\ heap[tradesOpen[1]].cost = 24


\* ------------------------------------------------------ the closing set
\* C35: whenever the queue is empty and no task is running the closing set
\* is empty: the step that ends an execute task, whether its last step
\* succeeded or its before, main or after step failed, takes the trade out
\* of the closing set.
C35_ClosingSetDrains ==
    /\ [](queue = <<>> /\ running = NoTask => tradesClosing = {})
    /\ [][execStep /\ pc' = "idle" => running.obj \notin tradesClosing']_vars

\* An exit has failed and another has succeeded, nothing waits, and the
\* closing set is empty.
C35_Witness ==
    /\ queue = <<>> /\ running = NoTask /\ tradesClosing = {}
    /\ lastCall # NoCall /\ lastCall.entryType = EXIT /\ ~lastCall.ok
    /\ lastCall.obj \in SeqToSet(tradesOpen)


\* ------------------------------------------------------ orders of exits
\* The step submits the market order of an exit of trade r.
exitOrder(r) ==
    /\ execStep /\ pc = "main" /\ isExec(running, r, EXIT)
    /\ lastCall'.obj = r /\ lastCall'.step = "main"

\* C36: no market order of an exit is submitted for a trade whose entry
\* order has not succeeded, whether the trade is still in the open-trade
\* list or its failed entry has taken it out.
C36_NoExitWithoutEntry ==
    [][\A r \in Refs : exitOrder(r) => heap[r].isExecuted]_vars


\* ------------------------------------------------------ sizing that awaits prices
\* With IS_FUNDS_NO_LOSS set, a long entry that has to sell waits for the
\* prices when they are not cached.  The wallets loaded before the wait, with
\* their lists of trades, are what the sizing goes on with afterwards.
PriceVals == {1, 3}

\* calculateTradeSize reaches the await of refreshPrices and the prices are
\* not cached.
awaitsPrices(signal, strategy, market, wallets, preferred) ==
    LET quantity == getLegalQty(Rat(strategy.tradeAmount, signal.price), market, signal.price)
        cost == quantity * signal.price
    IN  /\ signal.positionType = LONG
        /\ ~(env.TRADE_LONG_FUNDS = BORROW_ALL /\ market.margin)
        /\ cost > getBestWallet(RInt(cost), preferred, wallets).free
        /\ env.TRADE_LONG_FUNDS \in {SELL_ALL, SELL_LARGEST}
        /\ env.IS_FUNDS_NO_LOSS
        /\ ~hasCurrentPrices

\* fetchBalance answered: the wallets are loaded, and the sizing either
\* suspends on the prices or runs to its end as in TradeSize.
TradeSnapshot(ok, fetched) ==
    LET wallets == loadWalletBalances(running.strategy.tradingType, heap, tradesOpen,
                                      tradesClosing, fetched)
        preferred == getPreferredWallets(markets[running.signal.symbol],
                                         running.signal.positionType).preferred
    IN  /\ running # NoTask /\ running.kind = "trade" /\ pc = "sizing"
        /\ IF ok /\ awaitsPrices(running.signal, running.strategy,
                                 markets[running.signal.symbol], wallets, preferred)
           THEN /\ running' = [kind |-> "trade", signal |-> running.signal,
                               source |-> running.source, strategy |-> running.strategy,
                               wallets |-> wallets]
                /\ pc' = "pricing"
                /\ UNCHANGED <<aside, env, hub, prices, isOperational, strategies, heap,
                               tradesOpen, tradesClosing, queue, anythingDone, transactions,
                               acks, lastCall, skipped, nSignals, nOps, nPayloads, loads,
                               nLoaded>>
           ELSE TradeSize(ok, fetched)

\* loadPrices answered.  A failure rejects the entry; the prices are cached
\* otherwise and the sizing goes on at once (TradeResumed).
PricesLoaded(ok, p) ==
    /\ running # NoTask /\ running.kind = "trade" /\ pc = "pricing"
    /\ IF ok
       THEN /\ prices' = p
            /\ pc' = "priced"
            /\ UNCHANGED <<running, skipped>>
       ELSE /\ skipped' = "no prices"
            /\ running' = NoTask
            /\ pc' = "idle"
            /\ UNCHANGED prices
    /\ UNCHANGED <<aside, env, hub, isOperational, strategies, heap, tradesOpen, tradesClosing,
                   queue, anythingDone, transactions, acks, lastCall, nSignals, nOps, nPayloads,
                   loads, nLoaded>>

\* The rest of calculateTradeSize and of trade(): the wallets are those of
\* the snapshot, the trades and the closing set are as they are now.
TradeResumed ==
    /\ running # NoTask /\ running.kind = "trade" /\ pc = "priced"
    /\ tradeSized(calculateTradeSize(
           running.signal, running.strategy, markets[running.signal.symbol], running.wallets,
           getPreferredWallets(markets[running.signal.symbol],
                               running.signal.positionType).preferred,
           heap, queue, tradesClosing))
    /\ running' = NoTask
    /\ pc' = "idle"
    /\ UNCHANGED <<aside, env, hub, prices, isOperational, strategies, anythingDone, transactions,
                   acks, lastCall, nSignals, nOps, nPayloads, loads, nLoaded>>

InitPricing ==
    /\ \E m \in {SELL_ALL, SELL_LARGEST} : env = [Env(m) EXCEPT !.IS_FUNDS_NO_LOSS = TRUE]
    /\ hub \in [list : {<<>>}, free : {[w \in {MARGIN, SPOT} |-> IF w = MARGIN THEN f ELSE 0] :
                            f \in SellFrees},
                loans : {[base |-> 0, quote |-> 0]}]
    /\ \E trades \in SellLists :
          /\ heap = allocate([r \in Refs |-> NoTrade], trades, <<>>).heap
          /\ tradesOpen = allocate([r \in Refs |-> NoTrade], trades, <<>>).open
    /\ tradesClosing = {}
    /\ queue = <<>>
    /\ \E a \in {16, 40} :
          /\ strategies = [id \in SellStrats |-> Strategy(id, TRUE, a)]
          /\ running = [kind |-> "trade", signal |-> Signal("s4", ENTER, LONG, 2),
                        source |-> SIGNAL, strategy |-> Strategy("s4", TRUE, a)]
    /\ pc = "sizing"
    /\ isOperational = TRUE
    /\ prices = 0
    /\ anythingDone = FALSE
    /\ transactions = <<>>
    /\ acks = <<>>
    /\ lastCall = NoCall
    /\ skipped = ""
    /\ loads = <<>>
    /\ nSignals = 1
    /\ nOps = 0
    /\ nPayloads = 1
    /\ nLoaded = 1
    /\ balanceHistory = [tt \in TradingTypes |-> <<>>]
    /\ today = 0
    /\ nUpdates = 0
    /\ legal = NoLegal
    /\ rebalance = NoRebalance
    /\ lastKnown = NoneKnown
    /\ virtualBalances = NoBalances
    /\ InitServices

\* The web page is served while the sizing waits, never between the answer
\* of loadPrices and the end of the sizing.
NextPricing ==
    \/ \E ok \in BOOLEAN : TradeSnapshot(ok, hub.free)
    \/ \E ok \in BOOLEAN, p \in PriceVals : PricesLoaded(ok, p)
    \/ TradeResumed
    \/ pc = "pricing" /\ \E id \in openIds : closeTrade(id)

SpecPricing == InitPricing /\ [][NextPricing]_vars

\* The step schedules rebalance child c: a trade that is not in the list of
\* open trades and comes into the closing set.
childScheduled(c) ==
    c \in tradesClosing' \ tradesClosing /\ c \notin SeqToSet(tradesOpen')

\* C37: a rebalance child is never scheduled for a parent trade that is in
\* the closing set at the moment of scheduling, also when closeTrade closes
\* the parent while the entry waits between the wallet snapshot and the
\* rebalance.
C37_NoChildForClosingParent ==
    [][\A c \in Refs, p \in Refs :
          childScheduled(c) /\ p \in SeqToSet(tradesOpen) /\ heap[p].id = heap'[c].id
              => p \notin tradesClosing]_vars


\* ------------------------------------------------------ quantities bought and sold
\* Two long trades, bought for the quantities the hub lists, fund the entry
\* of a third strategy; the operator may close one of them at any moment the
\* trader serves the web page, and the queue runs what has been scheduled.
ConserveQtys == {8, 12}

InitConserve ==
    /\ \E m \in {SELL_ALL, SELL_LARGEST}, noLoss \in BOOLEAN :
          env = [Env(m) EXCEPT !.IS_FUNDS_NO_LOSS = noLoss]
    /\ \E a \in ConserveQtys, b \in ConserveQtys :
          /\ hub = [list |-> <<HubTrade("s1", LONG, a, 2, FALSE),
                               HubTrade("s2", LONG, b, 2, FALSE)>>,
                    free |-> [w \in {MARGIN, SPOT} |-> 0],
                    loans |-> [base |-> 0, quote |-> 0]]
          /\ heap = allocate([r \in Refs |-> NoTrade],
                             <<SellTrade("s1", a, FALSE), SellTrade("s2", b, FALSE)>>, <<>>).heap
          /\ tradesOpen = <<1, 2>>
    /\ tradesClosing = {}
    /\ queue = <<>>
    /\ \E a \in {16, 40} :
          /\ strategies = [id \in SellStrats |-> Strategy(id, TRUE, a)]
          /\ running = [kind |-> "trade", signal |-> Signal("s4", ENTER, LONG, 2),
                        source |-> SIGNAL, strategy |-> Strategy("s4", TRUE, a)]
    /\ pc = "sizing"
    /\ isOperational = TRUE
    /\ prices = 0
    /\ anythingDone = FALSE
    /\ transactions = <<>>
    /\ acks = <<>>
    /\ lastCall = NoCall
    /\ skipped = ""
    /\ loads = <<>>
    /\ nSignals = 1
    /\ nOps = 0
    /\ nPayloads = 1
    /\ nLoaded = 1
    /\ balanceHistory = [tt \in TradingTypes |-> <<>>]
    /\ today = 0
    /\ nUpdates = 0
    /\ legal = NoLegal
    /\ rebalance = NoRebalance
    /\ lastKnown = NoneKnown
    /\ virtualBalances = NoBalances
    /\ InitServices

NextConserve ==
    \/ \E ok \in BOOLEAN : TradeSnapshot(ok, hub.free)
    \/ \E ok \in BOOLEAN, p \in PriceVals : PricesLoaded(ok, p)
    \/ TradeResumed
    \/ pc # "priced" /\ \E id \in openIds : closeTrade(id)
    \/ ExecStart
    \/ \E ok \in BOOLEAN, p \in FillPrices : ExecMain(ok, p)

SpecConserve == InitConserve /\ [][NextConserve]_vars

\* The quantity the recorded sell orders of trade id have sold.
RECURSIVE soldOf(_, _)
soldOf(log, id) ==
    IF log = <<>> THEN 0
    ELSE (IF Head(log).id = id /\ Head(log).action = SELL THEN Head(log).quantity ELSE 0)
         + soldOf(Tail(log), id)

\* Trade p has been sold and none of its rebalance children waits.
soldOut(p) == p \notin SeqToSet(tradesOpen) /\ kidsOf(p) = {}

\* C38: the quantity a long trade's entry order bought equals what its
\* successful rebalance children and its exit order have sold, however the
\* rebalances, the failures of children and the exit interleave.
C38_QuantityConserved ==
    \A p \in 1..Len(hub.list) :
        soldOut(p) => soldOf(transactions, heap[p].id) = hub.list[p].quantity


\* ------------------------------------------------------ rejected entries
\* An enter signal of a fourth strategy waits in the queue while a short
\* trade holds funds of the margin wallet and two long trades may be sold.
RejectQtys == {4, 10, 22}
RejectFrees == {0, 16, 30}

ShortTrade(strategyId, quantity) ==
    [SavedTrade(strategyId, SHORT, TRUE, FALSE) EXCEPT !.quantity = quantity,
                                                       !.cost = 2 * quantity,
                                                       !.borrow = quantity]

RejectLists ==
    {<<ShortTrade("s1", a), SellTrade("s2", b, FALSE), SellTrade("s3", c, FALSE)>> :
        a \in RejectQtys, b \in RejectQtys, c \in RejectQtys}

InitReject ==
    /\ \E m \in {SELL_ALL, SELL_LARGEST} : env = Env(m)
    /\ hub \in [list : {<<>>}, free : {[w \in {MARGIN, SPOT} |-> IF w = MARGIN THEN f ELSE 0] :
                            f \in RejectFrees},
                loans : {[base |-> 0, quote |-> 0]}]
    /\ \E trades \in RejectLists :
          /\ heap = allocate([r \in Refs |-> NoTrade], trades, <<>>).heap
          /\ tradesOpen = allocate([r \in Refs |-> NoTrade], trades, <<>>).open
    /\ tradesClosing = {}
    /\ \E a \in {16, 40}, active \in BOOLEAN :
          strategies = [id \in SellStrats |-> Strategy(id, active, a)]
    /\ queue = <<TradeTask(Signal("s4", ENTER, LONG, 2), SIGNAL)>>
    /\ running = NoTask
    /\ pc = "idle"
    /\ isOperational = TRUE
    /\ prices = 0
    /\ anythingDone = FALSE
    /\ transactions = <<>>
    /\ acks = <<>>
    /\ lastCall = NoCall
    /\ skipped = ""
    /\ loads = <<>>
    /\ nSignals = 1
    /\ nOps = 0
    /\ nPayloads = 1
    /\ nLoaded = 1
    /\ balanceHistory = [tt \in TradingTypes |-> <<>>]
    /\ today = 0
    /\ nUpdates = 0
    /\ legal = NoLegal
    /\ rebalance = NoRebalance
    /\ lastKnown = NoneKnown
    /\ virtualBalances = NoBalances
    /\ InitServices

NextReject ==
    \/ TradeStart
    \/ \E ok \in BOOLEAN : TradeSize(ok, hub.free)

SpecReject == InitReject /\ [][NextReject]_vars

\* The step ends an enter signal in rejection: trade() returns at the
\* validation, or the sizing ends without a new open trade.
rejectedAtValidation ==
    /\ running = NoTask /\ queue # <<>> /\ Head(queue).kind = "trade"
    /\ Head(queue).signal.entryType = ENTER
    /\ running' = NoTask /\ queue' = Tail(queue)
rejectedAtSizing ==
    /\ running.kind = "trade" /\ pc \in {"sizing", "pricing", "priced"}
    /\ pc' = "idle" /\ tradesOpen' = tradesOpen

\* The tasks of rebalance children in queue q.
childTasks(q) ==
    FilterSeq(q, {t \in SeqToSet(q) : t.kind = "exec" /\ t.source = REBALANCE})

\* C39: an enter signal that ends in rejection, at validation or during
\* sizing, leaves the quantity and the cost of every open trade as they were
\* and leaves no task of a rebalance child in the queue.
C39_RejectionChangesNothing ==
    [][rejectedAtValidation \/ rejectedAtSizing
          => /\ \A r \in SeqToSet(tradesOpen) :
                    /\ heap'[r].quantity = heap[r].quantity
                    /\ heap'[r].cost = heap[r].cost
             /\ childTasks(queue') = childTasks(queue)]_vars


\* ------------------------------------------------------ acknowledged exits
\* The step ends the execute task of the exit of trade r.
exitEnds(r) == execStep /\ isExec(running, r, EXIT) /\ pc' = "idle"

\* The task has sent the hub the ack of its order: in this step or, when
\* the step is the repayment, in the one before.
acked == running.seq.socketChannel # "" /\ (pc = "after" \/ Len(acks') > Len(acks))

\* The step is the repayment of the loan and it is refused.
afterFailed == pc = "after" /\ ~lastCall'.ok

\* C40: whenever the ack of an exit is emitted to the hub, the trade is out
\* of the list of open trades at the end of that execute task.
C40_AckedExitRemoved ==
    [][\A r \in Refs : exitEnds(r) /\ acked => r \notin SeqToSet(tradesOpen')]_vars

\* C40 as amended: the trade is out of the list at the end of the task
\* unless the repayment fails after the ack; it is then stopped, and the
\* exit of a signal leaves the list as it is.
C40_AckedExitRemovedUnlessAfterFails ==
    [][\A r \in Refs :
          exitEnds(r) /\ acked
              => IF afterFailed
                 THEN /\ heap'[r].isStopped
                      /\ running.source = SIGNAL => tradesOpen' = tradesOpen
                 ELSE r \notin SeqToSet(tradesOpen')]_vars

\* The exit of a trade has been acknowledged and its task has ended with
\* the trade out of the list.
C40_Witness ==
    /\ pc = "idle" /\ lastCall # NoCall
    /\ lastCall.entryType = EXIT /\ lastCall.source # REBALANCE /\ lastCall.ok
    /\ lastCall.obj \notin SeqToSet(tradesOpen)
    /\ \E i \in 1..Len(acks) : /\ acks[i].id = heap[lastCall.obj].id
                               /\ acks[i].channel = exitChannel(heap[lastCall.obj])

====
